---- MODULE Spec2Model ----
(***************************************************************************)
(* Tribal Knowledge Extractor: the four commands (extract-knowledge,       *)
(* file-history, author-patterns, commit-timeline) and the git utilities   *)
(* they share.                                                             *)
(*                                                                         *)
(* Strings are sequences of one-character strings, so that startsWith,     *)
(* length, replace and split act on characters.  The output of a log       *)
(* source query is a sequence of lines; a line is the sequence of its      *)
(* '|'-separated values (what line.split('|') returns).  The empty output  *)
(* '' is the empty sequence of lines.                                      *)
(***************************************************************************)
EXTENDS Integers, Sequences, FiniteSets, TLC

VARIABLES
  cmd,       \* the command being run
  args,      \* its parsed command line (process.argv.slice(2))
  env,       \* the environment: is the cwd a repository, does the file exist, time zone
  src,       \* what the log source answers to each query
  pc,        \* position of the command's main()
  run,       \* number of the current invocation of the command
  clock,     \* last wall-clock reading
  locals,    \* values main() holds between its calls
  executed,  \* the command lines passed to execSync, in order
  stdout,    \* what was printed, in order
  written,   \* the artifacts written to OUTPUT_FILE, in order
  exitCode,  \* process exit code; -1 while running
  fin,       \* input of the function under study
  fout       \* its result

vars == <<cmd, args, env, src, pc, run, clock, locals, executed, stdout, written,
          exitCode, fin, fout>>

----------------------------------------------------------------------------
(* Characters and strings *)

UpperLetters == <<"A","B","C","D","E","F","G","H","I","J","K","L","M",
                  "N","O","P","Q","R","S","T","U","V","W","X","Y","Z">>
LowerLetters == <<"a","b","c","d","e","f","g","h","i","j","k","l","m",
                  "n","o","p","q","r","s","t","u","v","w","x","y","z">>

\* String.prototype.toLowerCase on one character
ToLowerChar(c) ==
  IF \E i \in 1..26 : UpperLetters[i] = c
  THEN LowerLetters[CHOOSE i \in 1..26 : UpperLetters[i] = c]
  ELSE c

ToLowerCase(s) == [i \in 1..Len(s) |-> ToLowerChar(s[i])]

\* String.prototype.startsWith
StartsWith(s, p) == Len(s) >= Len(p) /\ SubSeq(s, 1, Len(p)) = p

\* JS undefined, as the value of a destructured element that is not there
Undefined == <<"#undefined">>

\* the literals of the category rules
fix_lc      == <<"f","i","x",":">>
fix_cap     == <<"F","i","x",":">>
feat_lc     == <<"f","e","a","t",":">>
feat_cap    == <<"F","e","a","t",":">>
refactor_lc == <<"r","e","f","a","c","t","o","r",":">>
refactor_cap == <<"R","e","f","a","c","t","o","r",":">>
docs_lc     == <<"d","o","c","s",":">>
docs_cap    == <<"D","o","c","s",":">>
test_lc     == <<"t","e","s","t",":">>
test_cap    == <<"T","e","s","t",":">>
chore_lc    == <<"c","h","o","r","e",":">>
chore_cap   == <<"C","h","o","r","e",":">>

Categories == <<"fix", "feat", "refactor", "docs", "test", "chore", "other">>

\* mutant: the rule for feat is tried before the rule for fix and matches 'f...'
StatsCategoryFeatFirst(subject) ==
  IF StartsWith(subject, <<"f">>) \/ StartsWith(subject, <<"F">>) THEN "feat"
  ELSE IF StartsWith(subject, fix_lc) \/ StartsWith(subject, fix_cap) THEN "fix"
  ELSE "other"

\* the if/else-if chain of getCommitStats
StatsCategory(subject) ==
  IF StartsWith(subject, fix_lc) \/ StartsWith(subject, fix_cap) THEN "fix"
  ELSE IF StartsWith(subject, feat_lc) \/ StartsWith(subject, feat_cap) THEN "feat"
  ELSE IF StartsWith(subject, refactor_lc) \/ StartsWith(subject, refactor_cap) THEN "refactor"
  ELSE IF StartsWith(subject, docs_lc) \/ StartsWith(subject, docs_cap) THEN "docs"
  ELSE IF StartsWith(subject, test_lc) \/ StartsWith(subject, test_cap) THEN "test"
  ELSE IF StartsWith(subject, chore_lc) \/ StartsWith(subject, chore_cap) THEN "chore"
  ELSE "other"

\* the if/else-if chain of getAuthorStats
AuthorCategory(subject) ==
  IF StartsWith(subject, fix_lc) \/ StartsWith(subject, fix_cap) THEN "fix"
  ELSE IF StartsWith(subject, feat_lc) \/ StartsWith(subject, feat_cap) THEN "feat"
  ELSE IF StartsWith(subject, refactor_lc) \/ StartsWith(subject, refactor_cap) THEN "refactor"
  ELSE IF StartsWith(subject, docs_lc) \/ StartsWith(subject, docs_cap) THEN "docs"
  ELSE IF StartsWith(subject, test_lc) \/ StartsWith(subject, test_cap) THEN "test"
  ELSE IF StartsWith(subject, chore_lc) \/ StartsWith(subject, chore_cap) THEN "chore"
  ELSE "other"

----------------------------------------------------------------------------
(* Bounds of the model *)

\* longest log-source output, in lines
MaxLen == 4
\* invocations of one command in a row
MaxRuns == 2
\* largest wall-clock reading
MaxClock == 1
\* longest user-supplied string, in characters
MaxStr == 2

(* Program constants.  MAX_COMMITS is 1000 and the author slices are 10 in  *)
(* the source; the model keeps their role (a cap below the longest input)   *)
(* with smaller values, so that inputs longer than the cap are in reach.    *)
MAX_COMMITS == 3
TOP_AUTHORS == 2

----------------------------------------------------------------------------
(* scripts/utils/git-utils.js *)

\* typeof input !== 'string': the values that are not strings
NonString == <<"#number">>
IsString(v) == v # Undefined /\ v # NonString

\* the backtick character (the module's strings cannot hold one)
BQ == "<backtick>"
DQ == "\""
BSL == "\\"
DOLLAR == "$"

ShellMeta == {BQ, DOLLAR, BSL}

\* mutant: the backslash is kept
SanitizeKeepBackslash(input) ==
  IF ~IsString(input) THEN [threw |-> TRUE, value |-> <<>>]
  ELSE [threw |-> FALSE, value |-> SelectSeq(input, LAMBDA c : c \notin {BQ, DOLLAR})]

\* sanitizeGitInput: replace(/[<backtick>\$\\]/g, ''), TypeError for a non-string
sanitizeGitInput(input) ==
  IF ~IsString(input) THEN [threw |-> TRUE, value |-> <<>>]
  ELSE [threw |-> FALSE, value |-> SelectSeq(input, LAMBDA c : c \notin ShellMeta)]

\* a command line given to execSync: the call site and the values interpolated
\* into its double-quoted arguments
Command(site, user) == [site |-> site, user |-> user]

\* values[index] || ''
FieldOr(values, index) == IF index <= Len(values) THEN values[index] ELSE <<>>

\* mutant: a missing value is left undefined
ParseLineNoDefault(values, fields) ==
  [f \in {fields[i] : i \in 1..Len(fields)} |->
     LET i == CHOOSE k \in 1..Len(fields) : fields[k] = f
     IN IF i <= Len(values) THEN values[i] ELSE Undefined]

\* the body of parseGitLog's map: one object per line, keyed by the field names
ParseLine(values, fields) ==
  [f \in {fields[i] : i \in 1..Len(fields)} |->
     FieldOr(values, CHOOSE k \in 1..Len(fields) : fields[k] = f)]

\* parseGitLog(output, fields)
parseGitLog(output, fields) ==
  IF output = <<>> THEN <<>>
  ELSE [n \in 1..Len(output) |-> ParseLine(output[n], fields)]

----------------------------------------------------------------------------
(* Dates.  An ISO date of the log source ("2024-03-01 10:00:00 +0200") is   *)
(* <<day, hour, offset>>: the calendar day and hour in the commit's zone    *)
(* and the zone's offset in hours.  Every other string is no date.          *)

IsDate(d) == Len(d) = 3

\* Number.NaN as the result of getHours() on an Invalid Date: every
\* comparison of the period chain with a lower bound >= 0 is false for it
NaN == 0 - 1

\* new Date(date).getHours(): the hour in the zone of the process
GetHours(date, tz) ==
  IF IsDate(date) THEN (date[2] - date[3] + tz) % 24 ELSE NaN

----------------------------------------------------------------------------
(* scripts/extract-knowledge.js *)

ZeroPatterns == [fix |-> 0, feat |-> 0, refactor |-> 0, docs |-> 0, test |-> 0,
                 chore |-> 0, other |-> 0]
ZeroTimeDistribution == [morning |-> 0, afternoon |-> 0, evening |-> 0, night |-> 0]

\* mutant: the evening lasts an hour longer
StatsPeriodLateEvening(hour) ==
  IF hour >= 6 /\ hour < 12 THEN "morning"
  ELSE IF hour >= 12 /\ hour < 17 THEN "afternoon"
  ELSE IF hour >= 17 /\ hour < 22 THEN "evening"
  ELSE "night"

\* the if/else-if chain on hour
StatsPeriod(hour) ==
  IF hour >= 6 /\ hour < 12 THEN "morning"
  ELSE IF hour >= 12 /\ hour < 17 THEN "afternoon"
  ELSE IF hour >= 17 /\ hour < 21 THEN "evening"
  ELSE "night"

\* stats.authors is an object keyed by author name; its entries are kept in
\* insertion order: a sequence of [name, email, commits]
HasAuthor(authors, name) == \E i \in 1..Len(authors) : authors[i].name = name

BumpAuthor(authors, name, email) ==
  LET withEntry == IF HasAuthor(authors, name) THEN authors
                   ELSE Append(authors, [name |-> name, email |-> email, commits |-> 0])
  IN [i \in 1..Len(withEntry) |->
        IF withEntry[i].name = name
        THEN [withEntry[i] EXCEPT !.commits = @ + 1]
        ELSE withEntry[i]]

\* the body of the forEach of getCommitStats
StatsStep(stats, commit, tz) ==
  LET hour == GetHours(commit.date, tz)
  IN [stats EXCEPT
        !.commits = Append(@, commit),
        !.authors = BumpAuthor(@, commit.author, commit.email),
        !.patterns[StatsCategory(commit.subject)] = @ + 1,
        !.timeDistribution[StatsPeriod(hour)] = @ + 1]

RECURSIVE StatsFold(_, _, _, _)
StatsFold(stats, list, n, tz) ==
  IF n = 0 THEN stats
  ELSE StatsStep(StatsFold(stats, list, n - 1, tz), list[n], tz)

Min(a, b) == IF a < b THEN a ELSE b

CommitFields == <<"hash", "author", "email", "date", "subject">>

\* mutant: every parsed commit is folded in, not only the first MAX_COMMITS
CommitStatsOfNoCap(commits, tz) ==
  IF commits = <<>> THEN [commits |-> <<>>, total |-> 0]
  ELSE LET commitList == parseGitLog(commits, CommitFields)
           stats == [commits |-> <<>>, total |-> Len(commitList), authors |-> <<>>,
                     patterns |-> ZeroPatterns,
                     timeDistribution |-> ZeroTimeDistribution]
       IN StatsFold(stats, commitList, Len(commitList), tz)

\* getCommitStats, from the output of its git log query on
CommitStatsOf(commits, tz) ==
  IF commits = <<>> THEN [commits |-> <<>>, total |-> 0]
  ELSE LET commitList == parseGitLog(commits, CommitFields)
           stats == [commits |-> <<>>, total |-> Len(commitList), authors |-> <<>>,
                     patterns |-> ZeroPatterns,
                     timeDistribution |-> ZeroTimeDistribution]
       IN StatsFold(stats, commitList, Min(Len(commitList), MAX_COMMITS), tz)

----------------------------------------------------------------------------
(* String helpers of the JS runtime *)

IsWs(c) == c \in {" ", "\t"}

RECURSIVE TrimLeft(_)
TrimLeft(s) == IF s # <<>> /\ IsWs(Head(s)) THEN TrimLeft(Tail(s)) ELSE s

RECURSIVE TrimRight(_)
TrimRight(s) ==
  IF s # <<>> /\ IsWs(s[Len(s)]) THEN TrimRight(SubSeq(s, 1, Len(s) - 1)) ELSE s

\* String.prototype.trim
Trim(s) == TrimRight(TrimLeft(s))

\* s.replace(/\s+/g, ' ')
RECURSIVE CollapseWs(_)
CollapseWs(s) ==
  IF s = <<>> THEN <<>>
  ELSE IF IsWs(Head(s))
       THEN <<" ">> \o CollapseWs(TrimLeft(s))
       ELSE <<Head(s)>> \o CollapseWs(Tail(s))

\* s.split(sep) for a one-character separator
RECURSIVE SplitOn(_, _)
SplitOn(s, sep) ==
  IF \A i \in 1..Len(s) : s[i] # sep THEN <<s>>
  ELSE LET k == CHOOSE i \in 1..Len(s) : s[i] = sep /\ \A j \in 1..(i - 1) : s[j] # sep
       IN <<SubSeq(s, 1, k - 1)>> \o SplitOn(SubSeq(s, k + 1, Len(s)), sep)

\* s.split(/\s+/)
SplitWs(s) == SplitOn(CollapseWs(s), " ")

\* parts.join(' ')
RECURSIVE JoinSp(_)
JoinSp(parts) ==
  IF parts = <<>> THEN <<>>
  ELSE IF Len(parts) = 1 THEN parts[1]
  ELSE parts[1] \o <<" ">> \o JoinSp(Tail(parts))

Digits == <<"0","1","2","3","4","5","6","7","8","9">>
IsDigit(c) == \E d \in 1..10 : Digits[d] = c
DigitVal(c) == (CHOOSE d \in 1..10 : Digits[d] = c) - 1

RECURSIVE DigitsValue(_, _)
DigitsValue(s, acc) ==
  IF s = <<>> \/ ~IsDigit(Head(s)) THEN acc
  ELSE DigitsValue(Tail(s), acc * 10 + DigitVal(Head(s)))

\* parseInt(s, 10) of an unsigned numeral; NaN when s does not start with a digit
ParseInt(s) ==
  LET t == TrimLeft(s)
  IN IF t = <<>> \/ ~IsDigit(Head(t)) THEN NaN ELSE DigitsValue(t, 0)

\* output.trim().split('\n') on an output given as its lines: blank lines at
\* either end go, the first line loses its leading and the last its trailing
\* whitespace; an all-blank output is the single line ''
TrimSplitLines(lines) ==
  LET nonblank == {i \in 1..Len(lines) : Trim(lines[i]) # <<>>}
  IN IF nonblank = {} THEN << <<>> >>
     ELSE LET lo == CHOOSE i \in nonblank : \A j \in nonblank : i <= j
              hi == CHOOSE i \in nonblank : \A j \in nonblank : j <= i
          IN [i \in 1..(hi - lo + 1) |->
                LET l == lines[lo + i - 1]
                IN IF lo = hi THEN Trim(l)
                   ELSE IF i = 1 THEN TrimLeft(l)
                   ELSE IF i = hi - lo + 1 THEN TrimRight(l)
                   ELSE l]

\* Array.prototype.sort((a, b) => b.k - a.k): stable (Node >= 11) and
\* descending.  keys[i] is the k of list[i]; the sort is done on the indices.
RECURSIVE InsertDesc(_, _, _)
InsertDesc(sorted, i, keys) ==
  IF sorted = <<>> THEN <<i>>
  ELSE IF keys[Head(sorted)] >= keys[i]
       THEN <<Head(sorted)>> \o InsertDesc(Tail(sorted), i, keys)
       ELSE <<i>> \o sorted

RECURSIVE SortDescFrom(_, _)
SortDescFrom(n, keys) ==
  IF n = 0 THEN <<>>
  ELSE InsertDesc(SortDescFrom(n - 1, keys), n, keys)

\* mutant: among equal keys the later element comes first
SortDescTiesReversed(list, keys) ==
  LET n == Len(list)
      order == SortDescFrom(n, [j \in 1..n |-> keys[n + 1 - j]])
  IN [j \in 1..n |-> list[n + 1 - order[j]]]

SortDesc(list, keys) ==
  LET order == SortDescFrom(Len(list), keys)
  IN [j \in 1..Len(list) |-> list[order[j]]]

\* list.slice(0, n)
Slice(list, n) == SubSeq(list, 1, Min(n, Len(list)))

\* ((count / total) * 100).toFixed(1), as a number of tenths
ToFixed1Pct(count, total) == (count * 2000 + total) \div (2 * total)

----------------------------------------------------------------------------
(* scripts/extract-knowledge.js, continued *)

\* WORDS_TOP is 20 and PHRASES_TOP is 15 in the source; the model keeps their
\* role (a cut below the number of entries) with smaller values, as for
\* MAX_COMMITS
FILES_LIMIT == 20
WORDS_TOP == 3
PHRASES_TOP == 2

\* the map callback of getMostChangedFiles on one line of the pipeline's output
ChangedFileOf(line) ==
  LET parts == SplitWs(Trim(line))
      count == ParseInt(parts[1])
  IN [count |-> IF count = NaN THEN 0 ELSE count, file |-> JoinSp(Tail(parts))]

\* getMostChangedFiles, from the output of its pipeline on
MostChangedFilesOf(files) ==
  IF files = <<>> THEN <<>>
  ELSE LET lines == TrimSplitLines(files)
       IN SelectSeq([i \in 1..Len(lines) |-> ChangedFileOf(lines[i])],
                    LAMBDA item : item.file # <<>>)

\* a Map with counts, in insertion order: a sequence of [key, count]
MapIncr(map, key) ==
  IF \E i \in 1..Len(map) : map[i].key = key
  THEN [i \in 1..Len(map) |->
          IF map[i].key = key THEN [map[i] EXCEPT !.count = @ + 1] ELSE map[i]]
  ELSE Append(map, [key |-> key, count |-> 1])

\* mutant: words of three characters are counted too
RECURSIVE CountWordsFromThree(_, _, _)
CountWordsFromThree(wordMap, words, n) ==
  IF n = 0 THEN wordMap
  ELSE LET before == CountWordsFromThree(wordMap, words, n - 1)
       IN IF Len(words[n]) > 2 THEN MapIncr(before, words[n]) ELSE before

RECURSIVE CountWords(_, _, _)
CountWords(wordMap, words, n) ==
  IF n = 0 THEN wordMap
  ELSE LET before == CountWords(wordMap, words, n - 1)
       IN IF Len(words[n]) > 3 THEN MapIncr(before, words[n]) ELSE before

StopWords == { <<"t","h","i","s">>, <<"t","h","a","t">>, <<"w","i","t","h">>,
               <<"f","r","o","m">>, <<"w","h","e","n">>, <<"w","e","r","e">>,
               <<"b","e","e","n">> }

\* mutant: phrases of five characters are counted too
RECURSIVE PatternMapsFromFive(_, _)
PatternMapsFromFive(messageList, n) ==
  IF n = 0 THEN [wordMap |-> <<>>, phraseMap |-> <<>>]
  ELSE LET before == PatternMapsFromFive(messageList, n - 1)
           msg == messageList[n]
           words == SplitWs(ToLowerCase(msg))
           phrase == Trim(CollapseWs(ToLowerCase(msg)))
       IN [wordMap |-> CountWords(before.wordMap, words, Len(words)),
           phraseMap |-> IF Len(phrase) > 4 THEN MapIncr(before.phraseMap, phrase)
                         ELSE before.phraseMap]

\* the forEach of getCommitPatterns over the messages: [wordMap, phraseMap]
RECURSIVE PatternMaps(_, _)
PatternMaps(messageList, n) ==
  IF n = 0 THEN [wordMap |-> <<>>, phraseMap |-> <<>>]
  ELSE LET before == PatternMaps(messageList, n - 1)
           msg == messageList[n]
           words == SplitWs(ToLowerCase(msg))
           phrase == Trim(CollapseWs(ToLowerCase(msg)))
       IN [wordMap |-> CountWords(before.wordMap, words, Len(words)),
           phraseMap |-> IF Len(phrase) > 5 THEN MapIncr(before.phraseMap, phrase)
                         ELSE before.phraseMap]

Counts(map) == [i \in 1..Len(map) |-> map[i].count]

\* getCommitPatterns, from the output of its query on
CommitPatternsOf(messages) ==
  IF messages = <<>> THEN [commonWords |-> <<>>, commonPhrases |-> <<>>]
  ELSE LET messageList == TrimSplitLines(messages)
           maps == PatternMaps(messageList, Len(messageList))
           words == SelectSeq(maps.wordMap, LAMBDA e : e.key \notin StopWords)
           phrases == SelectSeq(maps.phraseMap, LAMBDA e : e.count > 1)
           topWords == Slice(SortDesc(words, Counts(words)), WORDS_TOP)
           topPhrases == Slice(SortDesc(phrases, Counts(phrases)), PHRASES_TOP)
       IN [commonWords |-> [i \in 1..Len(topWords) |->
                              [word |-> topWords[i].key, count |-> topWords[i].count]],
           commonPhrases |-> [i \in 1..Len(topPhrases) |->
                                [phrase |-> topPhrases[i].key,
                                 count |-> topPhrases[i].count]]]

\* parseInt(out.trim(), 10) || 0, with '0' for an empty output
CountOf(out) ==
  LET str == IF out = <<>> THEN <<"0">> ELSE TrimSplitLines(out)[1]
      n == ParseInt(str)
  IN IF n = NaN THEN 0 ELSE n

\* getBranchInsights, from the outputs of its two queries on
BranchInsightsOf(branches, mergedBranches) ==
  [totalBranches |-> CountOf(branches), mergedBranches |-> CountOf(mergedBranches)]

\* stats.authors is undefined in the object returned for an empty log
HasField(obj, f) == f \in DOMAIN obj

\* a property key that is a canonical array index ("0", "7", "42")
IsArrayIndex(key) ==
  /\ key # <<>>
  /\ \A i \in 1..Len(key) : IsDigit(key[i])
  /\ (Len(key) = 1 \/ key[1] # "0")

\* Object.entries of an object whose properties were created in the order of
\* the list: the array-index keys in ascending numeric order first, then the
\* other keys in the order of their creation
ObjectEntries(entries) ==
  LET ints == SelectSeq(entries, LAMBDA e : IsArrayIndex(e.name))
      strs == SelectSeq(entries, LAMBDA e : ~IsArrayIndex(e.name))
      place(i) == Cardinality({j \in 1..Len(ints) :
                     DigitsValue(ints[j].name, 0) < DigitsValue(ints[i].name, 0)}) + 1
  IN [k \in 1..Len(ints) |-> ints[CHOOSE i \in 1..Len(ints) : place(i) = k]] \o strs

AuthorCommits(authors) == [i \in 1..Len(authors) |-> authors[i].commits]

\* sortedAuthors of generateReport
SortedAuthors(stats) ==
  LET entries == ObjectEntries(stats.authors)
  IN Slice(SortDesc(entries, AuthorCommits(entries)), TOP_AUTHORS)

\* mutant: the reading of the clock is also added to the number of commits
ReportDataStamped(stats, files, patterns, branches, repoName, now) ==
  [metadata |-> [repository |-> repoName, generatedAt |-> now,
                 commitsAnalyzed |-> stats.total + now],
   authors |-> LET sorted == SortedAuthors(stats)
               IN [i \in 1..Len(sorted) |->
                     [author |-> sorted[i].name, email |-> sorted[i].email,
                      commits |-> sorted[i].commits,
                      percentage |-> ToFixed1Pct(sorted[i].commits, stats.total)]],
   commitPatterns |-> stats.patterns,
   timeDistribution |-> stats.timeDistribution,
   mostChangedFiles |-> files,
   commonKeywords |-> patterns.commonWords,
   commonPhrases |-> patterns.commonPhrases,
   branchInsights |-> branches]

\* reportData of generateReport; now is the reading of new Date()
ReportData(stats, files, patterns, branches, repoName, now) ==
  [metadata |-> [repository |-> repoName, generatedAt |-> now,
                 commitsAnalyzed |-> stats.total],
   authors |-> LET sorted == SortedAuthors(stats)
               IN [i \in 1..Len(sorted) |->
                     [author |-> sorted[i].name, email |-> sorted[i].email,
                      commits |-> sorted[i].commits,
                      percentage |-> ToFixed1Pct(sorted[i].commits, stats.total)]],
   commitPatterns |-> stats.patterns,
   timeDistribution |-> stats.timeDistribution,
   mostChangedFiles |-> files,
   commonKeywords |-> patterns.commonWords,
   commonPhrases |-> patterns.commonPhrases,
   branchInsights |-> branches]

\* one console.log / console.error call
Line(tag, val) == [tag |-> tag, val |-> val]

----------------------------------------------------------------------------
(* scripts/author-patterns.js *)

\* const [a, b, ...] = line.split('|'): the element, undefined past the end
Elem(values, i) == IF i <= Len(values) THEN values[i] ELSE Undefined

\* floor((hour - offset + tz) / 24) days from the commit's calendar day
LocalDay(date, tz) == date[1] + ((date[2] - date[3] + tz) \div 24)

\* new Date(date).getDay(): day numbers count from a Sunday
GetDay(date, tz) == IF IsDate(date) THEN LocalDay(date, tz) % 7 ELSE NaN

\* the order of the characters '+' and '-' and of the digits in "+0200"
OffsetKey(off) == IF off >= 0 THEN off ELSE 100 - off

\* a < b on two ISO date strings: the order of their characters.  With an
\* operand that is undefined the comparison is false.
DateStringLess(a, b) ==
  /\ IsDate(a) /\ IsDate(b)
  /\ \/ a[1] < b[1]
     \/ a[1] = b[1] /\ a[2] < b[2]
     \/ a[1] = b[1] /\ a[2] = b[2] /\ OffsetKey(a[3]) < OffsetKey(b[3])

NewAuthor(name, email, date) ==
  [name |-> name, email |-> email, commits |-> 0, firstCommit |-> date,
   lastCommit |-> date, commitHours |-> <<>>, commitDays |-> [d \in 0..6 |-> 0],
   patterns |-> ZeroPatterns, avgMessageLength |-> 0, totalMessageLength |-> 0]

\* the updates of one author's entry for one line
AuthorUpdate(author, date, subject, tz) ==
  LET hour == GetHours(date, tz)
      dayOfWeek == GetDay(date, tz)
  IN [author EXCEPT
        !.commits = @ + 1,
        !.commitHours = Append(@, hour),
        !.commitDays = IF dayOfWeek = NaN THEN @
                       ELSE [@ EXCEPT ![dayOfWeek] = @ + 1],
        !.totalMessageLength = @ + Len(subject),
        !.firstCommit = IF DateStringLess(date, @) THEN date ELSE @,
        !.lastCommit = IF DateStringLess(@, date) THEN date ELSE @,
        !.patterns[AuthorCategory(subject)] = @ + 1]

\* mutant: a missing subject counts as the empty string
AuthorStepLenient(acc, line, tz) ==
  LET name == Elem(line, 1)
      email == Elem(line, 2)
      date == Elem(line, 3)
      subject == IF Elem(line, 4) = Undefined THEN <<>> ELSE Elem(line, 4)
      authors == IF \E i \in 1..Len(acc.authors) : acc.authors[i].name = name
                 THEN acc.authors
                 ELSE Append(acc.authors, NewAuthor(name, email, date))
  IN IF acc.threw THEN acc
     ELSE [acc EXCEPT !.authors =
             [i \in 1..Len(authors) |->
                IF authors[i].name = name
                THEN AuthorUpdate(authors[i], date, subject, tz)
                ELSE authors[i]]]

\* the body of the forEach of getAuthorStats; subject.length is a TypeError when
\* the line has no fourth value
AuthorStep(acc, line, tz) ==
  LET name == Elem(line, 1)
      email == Elem(line, 2)
      date == Elem(line, 3)
      subject == Elem(line, 4)
      authors == IF \E i \in 1..Len(acc.authors) : acc.authors[i].name = name
                 THEN acc.authors
                 ELSE Append(acc.authors, NewAuthor(name, email, date))
  IN IF acc.threw THEN acc
     ELSE IF subject = Undefined THEN [acc EXCEPT !.threw = TRUE]
     ELSE [acc EXCEPT !.authors =
             [i \in 1..Len(authors) |->
                IF authors[i].name = name
                THEN AuthorUpdate(authors[i], date, subject, tz)
                ELSE authors[i]]]

RECURSIVE AuthorFold(_, _, _)
AuthorFold(lines, n, tz) ==
  IF n = 0 THEN [threw |-> FALSE, authors |-> <<>>]
  ELSE AuthorStep(AuthorFold(lines, n - 1, tz), lines[n], tz)

\* (totalMessageLength / commits).toFixed(1), as a number of tenths
ToFixed1Avg(total, commits) == (total * 20 + commits) \div (2 * commits)

\* getAuthorStats, from the output of its git log query on: the entries of the
\* returned object in insertion order, or threw
AuthorStatsOf(logData, tz) ==
  IF logData = <<>> THEN [threw |-> FALSE, authors |-> <<>>]
  ELSE LET folded == AuthorFold(logData, Len(logData), tz)
       IN IF folded.threw THEN [threw |-> TRUE, authors |-> <<>>]
          ELSE [threw |-> FALSE,
                authors |-> [i \in 1..Len(folded.authors) |->
                   [folded.authors[i] EXCEPT !.avgMessageLength =
                      ToFixed1Avg(folded.authors[i].totalMessageLength,
                                  folded.authors[i].commits)]]]

\* getAuthorFiles, from the output of its pipeline on
AuthorFilesOf(files) ==
  IF files = <<>> THEN <<>>
  ELSE LET lines == SelectSeq(TrimSplitLines(files), LAMBDA line : Trim(line) # <<>>)
       IN SelectSeq([i \in 1..Len(lines) |-> ChangedFileOf(lines[i])],
                    LAMBDA item : item.file # <<>>)

\* .slice(0, 10) of getAuthorCollaboration: 10 in the source, smaller here so
\* that an author with more collaborators than are returned is in reach
COLLABORATORS_TOP == 2

\* mutant: the author's own name is counted too
RECURSIVE CountOthersAndSelf(_, _, _, _)
CountOthersAndSelf(collaborators, names, n, authorName) ==
  IF n = 0 THEN collaborators
  ELSE LET before == CountOthersAndSelf(collaborators, names, n - 1, authorName)
       IN MapIncr(before, names[n])

RECURSIVE CountOthers(_, _, _, _)
CountOthers(collaborators, names, n, authorName) ==
  IF n = 0 THEN collaborators
  ELSE LET before == CountOthers(collaborators, names, n - 1, authorName)
       IN IF names[n] # authorName THEN MapIncr(before, names[n]) ELSE before

\* the forEach of getAuthorCollaboration over the hashes; ranges[n] is the output
\* of the range query for the n-th hash
RECURSIVE Collaborators(_, _, _)
Collaborators(ranges, n, authorName) ==
  IF n = 0 THEN <<>>
  ELSE LET before == Collaborators(ranges, n - 1, authorName)
       IN IF ranges[n] = <<>> THEN before
          ELSE LET names == TrimSplitLines(ranges[n])
               IN CountOthers(before, names, Len(names), authorName)

\* getAuthorCollaboration, from the outputs of its queries on
AuthorCollaborationOf(commits, ranges, authorName) ==
  IF commits = <<>> THEN <<>>
  ELSE LET hashes == TrimSplitLines(commits)
           collaborators == Collaborators(ranges, Len(hashes), authorName)
           entries == [i \in 1..Len(collaborators) |->
                         [author |-> collaborators[i].key,
                          count |-> collaborators[i].count]]
       IN Slice(SortDesc(entries, Counts(entries)), COLLABORATORS_TOP)

\* analyzeWorkingHours: the period counts (mostActive is the first largest)
RECURSIVE PeriodCounts(_, _)
PeriodCounts(commitHours, n) ==
  IF n = 0 THEN ZeroTimeDistribution
  ELSE LET hour == commitHours[n]
           period == IF hour >= 6 /\ hour < 12 THEN "morning"
                     ELSE IF hour >= 12 /\ hour < 17 THEN "afternoon"
                     ELSE IF hour >= 17 /\ hour < 21 THEN "evening"
                     ELSE "night"
       IN [PeriodCounts(commitHours, n - 1) EXCEPT ![period] = @ + 1]

PeriodNames == <<"morning", "afternoon", "evening", "night">>

analyzeWorkingHours(commitHours) ==
  IF Len(commitHours) = 0
  THEN [mostActive |-> "N/A", periods |-> ZeroTimeDistribution]
  ELSE LET periods == PeriodCounts(commitHours, Len(commitHours))
           sorted == SortDesc(PeriodNames, [i \in 1..4 |-> periods[PeriodNames[i]]])
       IN [mostActive |-> sorted[1], periods |-> periods]

\* the sorted author list of displayAuthorAnalysis and displayAllAuthors
RankedAuthors(allAuthors) ==
  LET entries == ObjectEntries(allAuthors)
  IN SortDesc(entries, AuthorCommits(entries))

\* mutant: the error lists every author
AvailableAuthorsAll(authors) == [i \in 1..Len(authors) |-> authors[i].name]

\* the names displayAuthorAnalysis lists when the author is not found
AvailableAuthors(authors) ==
  LET shown == Slice(authors, TOP_AUTHORS)
  IN [i \in 1..Len(shown) |-> shown[i].name]

----------------------------------------------------------------------------
(* scripts/file-history.js *)

\* getFileHistory, from the output of its git log query on
FileHistoryOf(history) ==
  IF history = <<>> THEN <<>>
  ELSE [i \in 1..Len(history) |->
          [hash |-> Elem(history[i], 1), author |-> Elem(history[i], 2),
           date |-> Elem(history[i], 3), subject |-> Elem(history[i], 4)]]

AuthorPrefix == <<"a","u","t","h","o","r"," ">>

\* mutant: every header line that starts with 'author' is counted
RECURSIVE BlameCountsAnyHeader(_, _)
BlameCountsAnyHeader(lines, n) ==
  IF n = 0 THEN <<>>
  ELSE LET before == BlameCountsAnyHeader(lines, n - 1)
       IN IF StartsWith(lines[n], SubSeq(AuthorPrefix, 1, 6))
          THEN MapIncr(before, SubSeq(lines[n], 8, Len(lines[n])))
          ELSE before

RECURSIVE BlameCounts(_, _)
BlameCounts(lines, n) ==
  IF n = 0 THEN <<>>
  ELSE LET before == BlameCounts(lines, n - 1)
       IN IF StartsWith(lines[n], AuthorPrefix)
          THEN MapIncr(before, SubSeq(lines[n], 8, Len(lines[n])))
          ELSE before

\* getFileAuthors, from the output of git blame on (blame.split('\n'), untrimmed)
FileAuthorsOf(blame) ==
  IF blame = <<>> THEN <<>>
  ELSE LET counts == BlameCounts(blame, Len(blame))
           authors == [i \in 1..Len(counts) |->
                         [author |-> counts[i].key, lines |-> counts[i].count]]
       IN SortDesc(authors, [i \in 1..Len(authors) |-> authors[i].lines])

\* authors.slice(0, 10) of displayFileHistory: 10 in the source, smaller here
\* so that a file with more authors than are shown is in reach
BLAME_TOP == 2

RECURSIVE SumLines(_, _)
SumLines(authors, n) == IF n = 0 THEN 0 ELSE SumLines(authors, n - 1) + authors[n].lines

\* the rows of the 'Authors by Contribution' table of displayFileHistory; the
\* percentage is a number of tenths
AuthorsTableOf(authors) ==
  LET totalLines == SumLines(authors, Len(authors))
      shown == Slice(authors, BLAME_TOP)
  IN [i \in 1..Len(shown) |->
        [author |-> shown[i].author, lines |-> shown[i].lines,
         percentage |-> ToFixed1Pct(shown[i].lines, totalLines)]]

\* getFileStats, from the outputs of its four queries on
FileStatsOf(additions, deletions, commits, currentSize) ==
  [additions |-> CountOf(additions), deletions |-> CountOf(deletions),
   commits |-> CountOf(commits), currentLines |-> CountOf(currentSize)]

\* a day key "YYYY-MM-DD" is <<"D", day>>, a week key "YYYY-Www" is <<"W", week>>;
\* their order as strings is the order of the numbers, after the empty string
KeyOrd(key) == IF Len(key) = 2 THEN key[2] ELSE 0 - 1

\* dateMap.get(date).push(subject)
MapPush(map, key, val) ==
  IF \E i \in 1..Len(map) : map[i].key = key
  THEN [i \in 1..Len(map) |->
          IF map[i].key = key THEN [map[i] EXCEPT !.vals = Append(@, val)] ELSE map[i]]
  ELSE Append(map, [key |-> key, vals |-> <<val>>])

RECURSIVE DateMap(_, _)
DateMap(lines, n) ==
  IF n = 0 THEN <<>>
  ELSE MapPush(DateMap(lines, n - 1), Elem(lines[n], 1), Elem(lines[n], 2))

\* getCommitsByDate, from the output of its git log query on
CommitsByDateOf(commits) ==
  IF commits = <<>> THEN <<>>
  ELSE LET dateMap == DateMap(commits, Len(commits))
           rows == [i \in 1..Len(dateMap) |->
                      [date |-> dateMap[i].key, commits |-> Len(dateMap[i].vals),
                       messages |-> dateMap[i].vals]]
       IN SortDesc(rows, [i \in 1..Len(rows) |-> KeyOrd(rows[i].date)])

----------------------------------------------------------------------------
(* scripts/commit-timeline.js *)

SAMPLE_SUBJECTS == 5

\* mutant: the author of a later commit of the day is not added
DayPutFirstAuthor(map, key, author, subject) ==
  IF \E i \in 1..Len(map) : map[i].key = key
  THEN [i \in 1..Len(map) |->
          IF map[i].key = key
          THEN [map[i] EXCEPT !.commits = @ + 1, !.subjects = Append(@, subject)]
          ELSE map[i]]
  ELSE Append(map, [key |-> key, commits |-> 1, authors |-> {author},
                    subjects |-> <<subject>>])

\* the update of dayMap for one line: commits++, authors.add, subjects.push
DayPut(map, key, author, subject) ==
  IF \E i \in 1..Len(map) : map[i].key = key
  THEN [i \in 1..Len(map) |->
          IF map[i].key = key
          THEN [map[i] EXCEPT !.commits = @ + 1, !.authors = @ \cup {author},
                              !.subjects = Append(@, subject)]
          ELSE map[i]]
  ELSE Append(map, [key |-> key, commits |-> 1, authors |-> {author},
                    subjects |-> <<subject>>])

RECURSIVE DayMap(_, _)
DayMap(lines, n) ==
  IF n = 0 THEN <<>>
  ELSE DayPut(DayMap(lines, n - 1), Elem(lines[n], 1), Elem(lines[n], 2),
              Elem(lines[n], 3))

\* getCommitsByDay, from the output of its git log query on: the entries of the
\* returned object, in insertion order
CommitsByDayOf(commits) ==
  IF commits = <<>> THEN <<>>
  ELSE LET dayMap == DayMap(commits, Len(commits))
       IN [i \in 1..Len(dayMap) |->
             [date |-> dayMap[i].key, commits |-> dayMap[i].commits,
              authors |-> Cardinality(dayMap[i].authors),
              subjects |-> Slice(dayMap[i].subjects, SAMPLE_SUBJECTS)]]

RECURSIVE WeekMap(_, _)
WeekMap(lines, n) ==
  IF n = 0 THEN <<>>
  ELSE DayPut(WeekMap(lines, n - 1), Elem(lines[n], 1), Elem(lines[n], 2), <<>>)

\* getCommitsByWeek, from the output of its git log query on
CommitsByWeekOf(commits) ==
  IF commits = <<>> THEN <<>>
  ELSE LET weekMap == WeekMap(commits, Len(commits))
       IN [i \in 1..Len(weekMap) |->
             [week |-> weekMap[i].key, commits |-> weekMap[i].commits,
              authors |-> Cardinality(weekMap[i].authors)]]

\* getCommitsByHour (slots = 24) and getCommitsByDayOfWeek (slots = 7), from the
\* output of the query on: one numeral per line
RECURSIVE SlotCounts(_, _, _)
SlotCounts(lines, n, slots) ==
  IF n = 0 THEN [k \in 0..(slots - 1) |-> 0]
  ELSE LET before == SlotCounts(lines, n - 1, slots)
           v == ParseInt(lines[n])
       IN IF v # NaN /\ v >= 0 /\ v < slots THEN [before EXCEPT ![v] = @ + 1]
          ELSE before

SlotCountsOf(commits, slots) ==
  IF commits = <<>> THEN [k \in 0..(slots - 1) |-> 0]
  ELSE LET lines == TrimSplitLines(commits) IN SlotCounts(lines, Len(lines), slots)

\* Object.entries(data).sort(): ascending by the date key
RECURSIVE InsertAsc(_, _, _)
InsertAsc(sorted, i, keys) ==
  IF sorted = <<>> THEN <<i>>
  ELSE IF keys[Head(sorted)] <= keys[i]
       THEN <<Head(sorted)>> \o InsertAsc(Tail(sorted), i, keys)
       ELSE <<i>> \o sorted

RECURSIVE SortAscFrom(_, _)
SortAscFrom(n, keys) ==
  IF n = 0 THEN <<>> ELSE InsertAsc(SortAscFrom(n - 1, keys), n, keys)

\* mutant: the entries stay in the order of their insertion
SortAscKeepsOrder(list, keys) == list

SortAsc(list, keys) ==
  LET order == SortAscFrom(Len(list), keys)
  IN [j \in 1..Len(list) |-> list[order[j]]]

RECURSIVE SumCommits(_, _, _)
SumCommits(entries, from, to) ==
  IF from > to THEN 0 ELSE entries[to].commits + SumCommits(entries, from, to - 1)

\* mutant: a percentChange of 0 is returned for fewer than two entries as well
calculateVelocityZeroChange(data) ==
  LET entries == SortAsc(data, [i \in 1..Len(data) |-> KeyOrd(data[i].date)])
      n == Len(entries)
      midPoint == n \div 2
      totalCommits == SumCommits(entries, 1, n)
      prevPeriodCommits == SumCommits(entries, 1, midPoint)
      currPeriodCommits == SumCommits(entries, midPoint + 1, n)
      num == IF prevPeriodCommits > 0 THEN (currPeriodCommits - prevPeriodCommits) * 100 ELSE 0
      den == IF prevPeriodCommits > 0 THEN prevPeriodCommits ELSE 0
  IN IF n < 2 THEN [avgDaily |-> 0, trend |-> "stable",
                   percentChange |-> [num |-> 0, den |-> 0]]
     ELSE [avgDaily |-> (totalCommits * 20 + n) \div (2 * n),
           trend |-> IF den > 0 /\ num > 20 * den THEN "increasing"
                     ELSE IF den > 0 /\ num < (0 - 20) * den THEN "decreasing"
                     ELSE "stable",
           percentChange |-> [num |-> num, den |-> den]]

\* calculateVelocity; avgDaily is a number of tenths, percentChange the fraction
\* num / den (den = 0 for the literal 0 of the zero-previous case)
\* (the trend strings of the source end in a chart emoji after the words
\* increasing and decreasing; the model keeps the words)
calculateVelocity(data) ==
  LET entries == SortAsc(data, [i \in 1..Len(data) |-> KeyOrd(data[i].date)])
      n == Len(entries)
      midPoint == n \div 2
      totalCommits == SumCommits(entries, 1, n)
      prevPeriodCommits == SumCommits(entries, 1, midPoint)
      currPeriodCommits == SumCommits(entries, midPoint + 1, n)
      num == IF prevPeriodCommits > 0 THEN (currPeriodCommits - prevPeriodCommits) * 100 ELSE 0
      den == IF prevPeriodCommits > 0 THEN prevPeriodCommits ELSE 0
  IN IF n < 2 THEN [avgDaily |-> 0, trend |-> "stable"]
     ELSE [avgDaily |-> (totalCommits * 20 + n) \div (2 * n),
           trend |-> IF den > 0 /\ num > 20 * den THEN "increasing"
                     ELSE IF den > 0 /\ num < (0 - 20) * den THEN "decreasing"
                     ELSE "stable",
           percentChange |-> [num |-> num, den |-> den]]

----------------------------------------------------------------------------
(* The commands as processes.  pc names the call main() makes next. *)

Put(rec, name, val) ==
  [f \in DOMAIN rec \cup {name} |-> IF f = name THEN val ELSE rec[f]]

NoLocals == [since |-> <<>>]

SixMonthsAgo == <<"6"," ","m","o","n","t","h","s"," ","a","g","o">>
ThirtyDaysAgo == <<"3","0"," ","d","a","y","s"," ","a","g","o">>
ThreeMonthsAgo == <<"3"," ","m","o","n","t","h","s"," ","a","g","o">>

\* process.exit(code), or the end of main()
Exit(code) == pc' = "exit" /\ exitCode' = code

\* an exception nobody catches: node prints it and exits with code 1
Uncaught == Line("uncaught TypeError", <<>>)

\* validateGitRepo, and where each main() goes on from it
AfterValidate ==
  CASE cmd = "extract-knowledge" -> "getCommitStats"
    [] cmd = "file-history" -> "existsSync"
    [] cmd = "author-patterns" ->
         IF args.target # Undefined THEN "displayAuthorAnalysis" ELSE "displayAllAuthors"
    [] cmd = "commit-timeline" -> "header"

\* mutant: outside a repository the error is printed and main goes on
validateGitRepoNoExit ==
  /\ pc = "validateGitRepo"
  /\ executed' = Append(executed, Command("git rev-parse --git-dir", <<>>))
  /\ stdout' = IF env.isRepo THEN stdout
               ELSE Append(stdout, Line("Error: Not a git repository", <<>>))
  /\ pc' = AfterValidate
  /\ UNCHANGED <<cmd, args, env, src, run, clock, locals, written, exitCode, fin, fout>>

validateGitRepo ==
  /\ pc = "validateGitRepo"
  /\ executed' = Append(executed, Command("git rev-parse --git-dir", <<>>))
  /\ IF env.isRepo
     THEN pc' = AfterValidate /\ UNCHANGED <<stdout, exitCode>>
     ELSE /\ stdout' = Append(stdout, Line("Error: Not a git repository", <<>>))
          /\ Exit(1)
  /\ UNCHANGED <<cmd, args, env, src, run, clock, locals, written, fin, fout>>

(* extract-knowledge *)

EK_Main ==
  /\ cmd = "extract-knowledge" /\ pc = "main"
  /\ locals' = Put(locals, "since",
                   IF args.since = Undefined \/ args.since = <<>>
                   THEN SixMonthsAgo ELSE args.since)
  /\ pc' = "validateGitRepo"
  /\ UNCHANGED <<cmd, args, env, src, run, clock, executed, stdout, written,
                 exitCode, fin, fout>>

EK_GetCommitStats ==
  /\ cmd = "extract-knowledge" /\ pc = "getCommitStats"
  /\ stdout' = Append(stdout, Line("Analyzing git history", locals.since))
  /\ executed' = Append(executed, Command("getCommitStats: git log --since", <<locals.since>>))
  /\ locals' = Put(locals, "stats", CommitStatsOf(src.log, env.tz))
  /\ pc' = "getMostChangedFiles"
  /\ UNCHANGED <<cmd, args, env, src, run, clock, written, exitCode, fin, fout>>

EK_GetMostChangedFiles ==
  /\ cmd = "extract-knowledge" /\ pc = "getMostChangedFiles"
  /\ executed' = Append(executed, Command("getMostChangedFiles: git log --name-only", <<>>))
  /\ locals' = Put(locals, "files", MostChangedFilesOf(src.files))
  /\ pc' = "getCommitPatterns"
  /\ UNCHANGED <<cmd, args, env, src, run, clock, stdout, written, exitCode, fin, fout>>

EK_GetCommitPatterns ==
  /\ cmd = "extract-knowledge" /\ pc = "getCommitPatterns"
  /\ executed' = Append(executed, Command("getCommitPatterns: git log --pretty", <<>>))
  /\ locals' = Put(locals, "patterns", CommitPatternsOf(src.msgs))
  /\ pc' = "getBranchInsights"
  /\ UNCHANGED <<cmd, args, env, src, run, clock, stdout, written, exitCode, fin, fout>>

EK_GetBranchInsights ==
  /\ cmd = "extract-knowledge" /\ pc = "getBranchInsights"
  /\ executed' = executed \o <<Command("getBranchInsights: git branch -a", <<>>),
                               Command("getBranchInsights: git branch --merged", <<>>)>>
  /\ locals' = Put(locals, "branches", BranchInsightsOf(src.branches, src.merged))
  /\ pc' = "generateReport"
  /\ UNCHANGED <<cmd, args, env, src, run, clock, stdout, written, exitCode, fin, fout>>

\* generateReport.  Object.entries(stats.authors) is a TypeError when the stats
\* have no authors; the banner and the three lines under it are out by then.
EK_GenerateReport ==
  /\ cmd = "extract-knowledge" /\ pc = "generateReport"
  /\ \E t1 \in clock..MaxClock, t2 \in clock..MaxClock :
       /\ t1 <= t2
       /\ LET stats == locals.stats
              head == <<Line("report: banner", <<>>),
                        Line("report: Repository, Analysis Date, Commits Analyzed",
                             <<t1, stats.total>>)>>
          IN IF ~HasField(stats, "authors")
             THEN /\ t2 = t1
                  /\ stdout' = stdout \o head \o <<Uncaught>>
                  /\ clock' = t1
                  /\ Exit(1)
                  /\ UNCHANGED written
             ELSE /\ stdout' = stdout \o head \o
                       <<Line("report: Top Contributors", <<>>),
                         Line("report: Commit Patterns", <<>>),
                         Line("report: Activity Distribution", <<>>)>> \o
                       (IF Len(locals.files) > 0
                        THEN <<Line("report: Most Changed Files", <<>>)>> ELSE <<>>) \o
                       <<Line("report: Common Keywords", <<>>),
                         Line("report: Common Commit Phrases", <<>>),
                         Line("report: Branch Insights", <<>>),
                         Line("Report saved to", <<>>)>>
                  /\ written' = Append(written,
                        ReportData(stats, locals.files, locals.patterns,
                                   locals.branches, env.repoName, t2))
                  /\ clock' = t2
                  /\ Exit(0)
  /\ UNCHANGED <<cmd, args, env, src, run, locals, executed, fin, fout>>

\* extract-knowledge, the one command that leaves a file behind, is invoked
\* once more in the same environment
RunAgain ==
  /\ cmd = "extract-knowledge" /\ pc = "exit" /\ run < MaxRuns
  /\ run' = run + 1
  /\ pc' = "main" /\ exitCode' = 0 - 1
  /\ locals' = NoLocals /\ executed' = <<>> /\ stdout' = <<>>
  /\ UNCHANGED <<cmd, args, env, src, clock, written, fin, fout>>

(* author-patterns *)

AP_Main ==
  /\ cmd = "author-patterns" /\ pc = "main"
  /\ IF args.help
     THEN /\ stdout' = Append(stdout, Line("usage", <<>>))
          /\ Exit(0)
          /\ UNCHANGED locals
     ELSE /\ locals' = Put(locals, "since",
                           IF args.since = Undefined THEN SixMonthsAgo ELSE args.since)
          /\ pc' = "validateGitRepo"
          /\ UNCHANGED <<stdout, exitCode>>
  /\ UNCHANGED <<cmd, args, env, src, run, clock, executed, written, fin, fout>>

\* displayAllAuthors
AP_DisplayAllAuthors ==
  /\ cmd = "author-patterns" /\ pc = "displayAllAuthors"
  /\ executed' = Append(executed, Command("getAuthorStats: git log --since", <<locals.since>>))
  /\ LET allAuthors == AuthorStatsOf(src.log, env.tz)
         authors == RankedAuthors(allAuthors.authors)
     IN IF allAuthors.threw
        THEN stdout' = Append(stdout, Uncaught) /\ Exit(1)
        ELSE /\ stdout' = stdout \o
                  <<Line("contributors: banner", <<>>),
                    Line("contributors: table",
                         [i \in 1..Len(authors) |-> authors[i].name]),
                    Line("contributors: Total", <<Len(authors)>>)>>
             /\ Exit(0)
  /\ UNCHANGED <<cmd, args, env, src, run, clock, locals, written, fin, fout>>

\* displayAuthorAnalysis, up to the lookup of the author
AP_DisplayAuthorAnalysis ==
  /\ cmd = "author-patterns" /\ pc = "displayAuthorAnalysis"
  /\ executed' = Append(executed, Command("getAuthorStats: git log --since", <<locals.since>>))
  /\ LET allAuthors == AuthorStatsOf(src.log, env.tz)
         authors == RankedAuthors(allAuthors.authors)
         found == \E i \in 1..Len(authors) : authors[i].name = args.target
     IN IF allAuthors.threw
        THEN stdout' = Append(stdout, Uncaught) /\ Exit(1) /\ UNCHANGED locals
        ELSE IF ~found
        THEN /\ stdout' = stdout \o
                  <<Line("Error: Author not found in git history", args.target),
                    Line("Available authors", AvailableAuthors(authors))>>
             /\ Exit(1)
             /\ UNCHANGED locals
        ELSE /\ locals' = Put(Put(locals, "authors", authors), "targetAuthor",
                    authors[CHOOSE i \in 1..Len(authors) :
                               /\ authors[i].name = args.target
                               /\ \A j \in 1..(i - 1) : authors[j].name # args.target])
             /\ pc' = "getAuthorFiles"
             /\ UNCHANGED <<stdout, exitCode>>
  /\ UNCHANGED <<cmd, args, env, src, run, clock, written, fin, fout>>

\* a call of sanitizeGitInput followed by queries built on its result: the
\* TypeError of a non-string ends the process before any of them
Sanitized(input, Then(_)) ==
  LET safe == sanitizeGitInput(input)
  IN IF safe.threw
     THEN /\ stdout' = Append(stdout, Uncaught) /\ Exit(1)
          /\ UNCHANGED <<executed, locals>>
     ELSE Then(safe.value)

AP_GetAuthorFiles ==
  /\ cmd = "author-patterns" /\ pc = "getAuthorFiles"
  /\ Sanitized(args.target, LAMBDA safeAuthorName :
       /\ executed' = Append(executed,
             Command("getAuthorFiles: git log --author", <<safeAuthorName>>))
       /\ locals' = Put(locals, "topFiles", AuthorFilesOf(src.files))
       /\ pc' = "getAuthorCollaboration"
       /\ UNCHANGED <<stdout, exitCode>>)
  /\ UNCHANGED <<cmd, args, env, src, run, clock, written, fin, fout>>

\* the two queries getAuthorCollaboration makes for each hash
PerHashQueries(n) ==
  [i \in 1..(2 * n) |->
     IF i % 2 = 1 THEN Command("getAuthorCollaboration: git show", <<>>)
     ELSE Command("getAuthorCollaboration: git log range", <<>>)]

AP_GetAuthorCollaboration ==
  /\ cmd = "author-patterns" /\ pc = "getAuthorCollaboration"
  /\ Sanitized(args.target, LAMBDA safeAuthorName :
       /\ executed' = Append(executed,
             Command("getAuthorCollaboration: git log --author", <<safeAuthorName>>)) \o
             (IF src.hashes = <<>> THEN <<>>
              ELSE PerHashQueries(Len(TrimSplitLines(src.hashes))))
       /\ locals' = Put(locals, "collaborators",
             AuthorCollaborationOf(src.hashes, src.ranges, args.target))
       /\ pc' = "printAuthorAnalysis"
       /\ UNCHANGED <<stdout, exitCode>>)
  /\ UNCHANGED <<cmd, args, env, src, run, clock, written, fin, fout>>

\* the rest of displayAuthorAnalysis: the report
AP_PrintAuthorAnalysis ==
  /\ cmd = "author-patterns" /\ pc = "printAuthorAnalysis"
  /\ LET workingHours == analyzeWorkingHours(locals.targetAuthor.commitHours)
     IN stdout' = stdout \o
          <<Line("author report: banner", <<>>),
            Line("author report: Summary", <<locals.targetAuthor.commits,
                                             workingHours.mostActive>>),
            Line("author report: Commit Pattern Distribution", <<>>),
            Line("author report: Day of Week Distribution", <<>>)>> \o
          (IF Len(locals.topFiles) > 0
           THEN <<Line("author report: Most Worked On Files", <<>>)>> ELSE <<>>) \o
          (IF Len(locals.collaborators) > 0
           THEN <<Line("author report: Frequent Collaborators", <<>>)>> ELSE <<>>) \o
          <<Line("author report: Standing in Repository", <<>>)>>
  /\ Exit(0)
  /\ UNCHANGED <<cmd, args, env, src, run, clock, locals, executed, written, fin, fout>>

(* file-history *)

FH_Main ==
  /\ cmd = "file-history" /\ pc = "main"
  /\ IF args.target = Undefined \/ args.help
     THEN stdout' = Append(stdout, Line("usage", <<>>)) /\ Exit(0)
     ELSE pc' = "validateGitRepo" /\ UNCHANGED <<stdout, exitCode>>
  /\ UNCHANGED <<cmd, args, env, src, run, clock, locals, executed, written, fin, fout>>

\* mutant: a missing file is reported and main goes on
FH_ExistsSyncNoExit ==
  /\ cmd = "file-history" /\ pc = "existsSync"
  /\ stdout' = IF ~env.fileExists
               THEN Append(stdout, Line("Error: File not found", args.target))
               ELSE stdout
  /\ pc' = "getFileStats"
  /\ UNCHANGED <<cmd, args, env, src, run, clock, locals, executed, written, exitCode,
                 fin, fout>>

\* fs.existsSync(filePath) in main
FH_ExistsSync ==
  /\ cmd = "file-history" /\ pc = "existsSync"
  /\ IF ~env.fileExists
     THEN stdout' = Append(stdout, Line("Error: File not found", args.target)) /\ Exit(1)
     ELSE pc' = "getFileStats" /\ UNCHANGED <<stdout, exitCode>>
  /\ UNCHANGED <<cmd, args, env, src, run, clock, locals, executed, written, fin, fout>>

FH_GetFileStats ==
  /\ cmd = "file-history" /\ pc = "getFileStats"
  /\ Sanitized(args.target, LAMBDA safePath :
       /\ executed' = executed \o
             <<Command("getFileStats: git log --numstat (additions)", <<safePath>>),
               Command("getFileStats: git log --numstat (deletions)", <<safePath>>),
               Command("getFileStats: git log --oneline", <<safePath>>),
               Command("getFileStats: wc -l", <<safePath>>)>>
       /\ locals' = Put(locals, "stats",
             FileStatsOf(src.adds, src.dels, src.count, src.size))
       /\ pc' = "getFileHistory"
       /\ UNCHANGED <<stdout, exitCode>>)
  /\ UNCHANGED <<cmd, args, env, src, run, clock, written, fin, fout>>

FH_GetFileHistory ==
  /\ cmd = "file-history" /\ pc = "getFileHistory"
  /\ Sanitized(args.target, LAMBDA safePath :
       /\ executed' = Append(executed, Command("getFileHistory: git log --follow", <<safePath>>))
       /\ locals' = Put(locals, "history", FileHistoryOf(src.log))
       /\ pc' = "getFileAuthors"
       /\ UNCHANGED <<stdout, exitCode>>)
  /\ UNCHANGED <<cmd, args, env, src, run, clock, written, fin, fout>>

FH_GetFileAuthors ==
  /\ cmd = "file-history" /\ pc = "getFileAuthors"
  /\ Sanitized(args.target, LAMBDA safePath :
       /\ executed' = Append(executed, Command("getFileAuthors: git blame", <<safePath>>))
       /\ locals' = Put(locals, "authors", FileAuthorsOf(src.blame))
       /\ pc' = "getCommitsByDate"
       /\ UNCHANGED <<stdout, exitCode>>)
  /\ UNCHANGED <<cmd, args, env, src, run, clock, written, fin, fout>>

FH_GetCommitsByDate ==
  /\ cmd = "file-history" /\ pc = "getCommitsByDate"
  /\ Sanitized(args.target, LAMBDA safePath :
       /\ executed' = Append(executed, Command("getCommitsByDate: git log --follow --since", <<safePath>>))
       /\ locals' = Put(locals, "recentCommits", CommitsByDateOf(src.recent))
       /\ pc' = "printFileHistory"
       /\ UNCHANGED <<stdout, exitCode>>)
  /\ UNCHANGED <<cmd, args, env, src, run, clock, written, fin, fout>>

\* the rest of displayFileHistory: the report
FH_PrintFileHistory ==
  /\ cmd = "file-history" /\ pc = "printFileHistory"
  /\ \E now \in clock..MaxClock :
       /\ clock' = now
       /\ stdout' = stdout \o
            <<Line("file report: banner", <<>>),
              Line("file report: Repository, File, Analysis Date", <<now>>),
              Line("file report: File Statistics", <<>>)>> \o
            (IF Len(locals.authors) > 0
             THEN <<Line("file report: Authors by Contribution", <<>>)>> ELSE <<>>) \o
            (IF Len(locals.recentCommits) > 0
             THEN <<Line("file report: Recent Activity", <<>>)>> ELSE <<>>) \o
            (IF Len(locals.history) > 0
             THEN <<Line("file report: Commit History", <<Len(locals.history)>>)>>
             ELSE <<>>)
  /\ Exit(0)
  /\ UNCHANGED <<cmd, args, env, src, run, locals, executed, written, fin, fout>>

(* commit-timeline *)

CT_Main ==
  /\ cmd = "commit-timeline" /\ pc = "main"
  /\ IF args.help
     THEN /\ stdout' = Append(stdout, Line("usage", <<>>))
          /\ Exit(0)
          /\ UNCHANGED locals
     ELSE /\ locals' = Put(locals, "since",
                           IF args.since = Undefined THEN ThirtyDaysAgo ELSE args.since)
          /\ pc' = "validateGitRepo"
          /\ UNCHANGED <<stdout, exitCode>>
  /\ UNCHANGED <<cmd, args, env, src, run, clock, executed, written, fin, fout>>

\* the banner and the three lines main prints under it
CT_Header ==
  /\ cmd = "commit-timeline" /\ pc = "header"
  /\ \E now \in clock..MaxClock :
       /\ clock' = now
       /\ stdout' = stdout \o
            <<Line("timeline report: banner", <<>>),
              Line("timeline report: Repository, Analysis Period, Generated", <<now>>)>>
  /\ pc' = IF args.weekly THEN "getCommitsByWeek" ELSE "getCommitsByDay"
  /\ UNCHANGED <<cmd, args, env, src, run, locals, executed, written, exitCode, fin, fout>>

\* getCommitsByWeek and displayWeekTimeline
CT_Weekly ==
  /\ cmd = "commit-timeline" /\ pc = "getCommitsByWeek"
  /\ executed' = Append(executed, Command("getCommitsByWeek: git log --since", <<locals.since>>))
  /\ LET weeklyData == CommitsByWeekOf(src.log)
     IN /\ locals' = Put(locals, "weeklyData", weeklyData)
        /\ stdout' = Append(stdout,
              IF Len(weeklyData) = 0 THEN Line("No commits found in the specified period.", <<>>)
              ELSE Line("timeline report: Weekly Activity", <<Len(weeklyData)>>))
  /\ pc' = "getCommitsByHour"
  /\ UNCHANGED <<cmd, args, env, src, run, clock, written, exitCode, fin, fout>>

\* getCommitsByDay, displayDayTimeline, displayHotspots and the velocity lines
CT_Daily ==
  /\ cmd = "commit-timeline" /\ pc = "getCommitsByDay"
  /\ executed' = Append(executed, Command("getCommitsByDay: git log --since", <<locals.since>>))
  /\ LET dailyData == CommitsByDayOf(src.log)
         velocity == calculateVelocity(dailyData)
     IN /\ locals' = Put(Put(locals, "dailyData", dailyData), "velocity", velocity)
        /\ stdout' = stdout \o
             (IF Len(dailyData) = 0
              THEN <<Line("No commits found in the specified period.", <<>>)>>
              ELSE <<Line("timeline report: Daily Activity", <<Len(dailyData)>>),
                     Line("timeline report: Most Active Days", <<>>)>>) \o
             <<Line("timeline report: Velocity Metrics",
                    <<velocity.avgDaily, velocity.trend>>)>>
  /\ pc' = "getCommitsByHour"
  /\ UNCHANGED <<cmd, args, env, src, run, clock, written, exitCode, fin, fout>>

\* getCommitsByHour and displayHourTimeline
CT_Hours ==
  /\ cmd = "commit-timeline" /\ pc = "getCommitsByHour"
  /\ executed' = Append(executed, Command("getCommitsByHour: git log --since", <<locals.since>>))
  /\ locals' = Put(locals, "hourData", SlotCountsOf(src.hours, 24))
  /\ stdout' = Append(stdout, Line("timeline report: Hourly Activity Distribution", <<>>))
  /\ pc' = "getCommitsByDayOfWeek"
  /\ UNCHANGED <<cmd, args, env, src, run, clock, written, exitCode, fin, fout>>

\* getCommitsByDayOfWeek, displayDayOfWeekTimeline and the closing banner
CT_DaysOfWeek ==
  /\ cmd = "commit-timeline" /\ pc = "getCommitsByDayOfWeek"
  /\ executed' = Append(executed, Command("getCommitsByDayOfWeek: git log --since", <<locals.since>>))
  /\ locals' = Put(locals, "dayOfWeekData", SlotCountsOf(src.days, 7))
  /\ stdout' = stdout \o <<Line("timeline report: Day of Week Activity", <<>>),
                           Line("timeline report: banner", <<>>)>>
  /\ Exit(0)
  /\ UNCHANGED <<cmd, args, env, src, run, clock, written, fin, fout>>

----------------------------------------------------------------------------
(* The inputs *)

A == <<"A">>
B == <<"B">>
C == <<"C">>
Z == <<"Z">>
MailA == <<"a","@","x">>
MailB == <<"b","@","x">>
MailC == <<"c","@","x">>

SubjFix == <<"f","i","x",":"," ","a">>
SubjFeat == <<"F","e","a","t",":"," ","b">>
SubjFIX == <<"F","I","X",":"," ","c">>
SubjPlain == <<"u","p","d","a","t","e">>

\* all sequences of at most n elements of S
SeqsUpTo(S, n) == UNION {[1..k -> S] : k \in 0..n}

\* %H|%an|%ae|%ad|%s lines of extract-knowledge, the hash to be filled in; the
\* last one is cut after its second value
ExtractLines ==
  { <<<<>>, A, MailA, <<1, 7, 0>>, SubjFix>>,
    <<<<>>, B, MailB, <<1, 22, 0>>, SubjFeat>>,
    <<<<>>, A, MailA, <<2, 13, 2>>, SubjFIX>>,
    <<<<>>, C, MailC, <<2, 18, 0>>, SubjPlain>>,
    <<<<>>, B>> }

\* the hash of the n-th commit of a log
WithHash(line, n) == [line EXCEPT ![1] = <<Digits[n + 1]>>]

\* %an|%ae|%ad|%s lines of author-patterns; the last one is cut after the name
AuthorLines ==
  { <<A, MailA, <<1, 7, 0>>, SubjFix>>,
    <<B, MailB, <<1, 22, 0>>, SubjFeat>>,
    <<C, MailC, <<2, 13, 2>>, SubjPlain>>,
    <<B>> }

\* %H|%an|%ad|%s lines of getFileHistory; the last one is cut after the hash
HistoryLines ==
  { << <<"1">>, A, <<1, 7, 0>>, SubjFix>>,
    << <<"2">>, B, <<2, 22, 0>>, SubjPlain>>,
    << <<"3">> >> }

\* %ad|%s lines of getCommitsByDate; the last one is cut after the date
RecentLines ==
  { << <<"D", 1>>, SubjFix>>, << <<"D", 2>>, SubjPlain>>, << <<"D", 2>> >> }

\* %ad|%an|%s lines of getCommitsByDay; the last two are cut short
DayLines ==
  { << <<"D", 1>>, A, SubjFix>>, << <<"D", 2>>, B, SubjPlain>>,
    << <<"D", 2>>, A>>, << <<"D", 3>> >> }

\* %ad|%an lines of getCommitsByWeek; the last one is cut after the week
WeekLines ==
  { << <<"W", 1>>, A>>, << <<"W", 2>>, B>>, << <<"W", 2>> >> }

\* the characters of the user's strings
UserChars == {"a", BQ, DOLLAR, BSL, DQ}
UserStrings == SeqsUpTo(UserChars, MaxStr)

DefaultEnv == [isRepo |-> TRUE, fileExists |-> TRUE, tz |-> 0, repoName |-> <<"r">>]
NoArgs == [help |-> FALSE, weekly |-> FALSE, since |-> Undefined, target |-> Undefined]

\* a repository's answers to the queries other than the main git log
DefaultSrc ==
  [log |-> <<>>, recent |-> <<>>,
   files |-> << <<" "," ","2"," ","a",".","j","s">>, <<" "," ","1"," ","b">> >>,
   msgs |-> << <<"f","i","x"," ","t","y","p","o">>, <<"F","i","x"," "," ","t","y","p","o">> >>,
   branches |-> << <<" ","3">> >>, merged |-> << <<" ","1">> >>,
   hashes |-> << <<"1">>, <<"2">> >>,
   ranges |-> << <<A>>, <<B>> >>,
   adds |-> << <<"5">> >>, dels |-> << <<"2">> >>, count |-> << <<"2">> >>,
   size |-> << <<"3">> >>,
   blame |-> << <<"a","u","t","h","o","r"," ","A">>, <<"x">> >>,
   hours |-> << <<"0","7">>, <<"2","2">> >>,
   days |-> << <<"1">>, <<"5">> >>]

Commands == {"extract-knowledge", "file-history", "author-patterns", "commit-timeline"}

InitWith(c, a, e, s) ==
  /\ cmd = c /\ args = a /\ env = e /\ src = s
  /\ pc = "main" /\ run = 1 /\ clock = 0 /\ locals = NoLocals
  /\ executed = <<>> /\ stdout = <<>> /\ written = <<>> /\ exitCode = 0 - 1
  /\ fin = <<>> /\ fout = <<>>

\* extract-knowledge over every log
InitExtract ==
  \E l \in SeqsUpTo(ExtractLines, MaxLen), tz \in {0, 5} :
    InitWith("extract-knowledge", NoArgs, [DefaultEnv EXCEPT !.tz = tz],
             [DefaultSrc EXCEPT !.log = [n \in 1..Len(l) |-> WithHash(l[n], n)]])

\* author-patterns over every log, for a known, an unknown and no author
InitAuthor ==
  \E l \in SeqsUpTo(AuthorLines, MaxLen), t \in {Undefined, A, Z} :
    InitWith("author-patterns", [NoArgs EXCEPT !.target = t], DefaultEnv,
             [DefaultSrc EXCEPT !.log = l])

\* file-history over every history and every recent activity
InitFile ==
  \/ \E l \in SeqsUpTo(HistoryLines, MaxLen) :
       InitWith("file-history", [NoArgs EXCEPT !.target = <<"f">>], DefaultEnv,
                [DefaultSrc EXCEPT !.log = l])
  \/ \E l \in SeqsUpTo(RecentLines, MaxLen) :
       InitWith("file-history", [NoArgs EXCEPT !.target = <<"f">>], DefaultEnv,
                [DefaultSrc EXCEPT !.recent = l])

\* commit-timeline over every log, daily and weekly
InitTimeline ==
  \/ \E l \in SeqsUpTo(DayLines, MaxLen) :
       InitWith("commit-timeline", NoArgs, DefaultEnv, [DefaultSrc EXCEPT !.log = l])
  \/ \E l \in SeqsUpTo(WeekLines, MaxLen) :
       InitWith("commit-timeline", [NoArgs EXCEPT !.weekly = TRUE], DefaultEnv,
                [DefaultSrc EXCEPT !.log = l])

\* a log of the command's format with two commits of A and B
SmallLog(c, weekly) ==
  CASE c = "extract-knowledge" ->
         << << <<"1">>, A, MailA, <<1, 7, 0>>, SubjFix>>,
            << <<"2">>, B, MailB, <<1, 22, 0>>, SubjFeat>> >>
    [] c = "author-patterns" ->
         << <<A, MailA, <<1, 7, 0>>, SubjFix>>, <<B, MailB, <<1, 22, 0>>, SubjFeat>> >>
    [] c = "file-history" ->
         << << <<"1">>, A, <<1, 7, 0>>, SubjFix>> >>
    [] c = "commit-timeline" ->
         IF weekly THEN << << <<"W", 1>>, A>> >>
         ELSE << << <<"D", 1>>, A, SubjFix>>, << <<"D", 2>>, B, SubjPlain>> >>

\* every command with every combination of flags, inside and outside a repository
InitFlags ==
  \E c \in Commands, h \in BOOLEAN, w \in BOOLEAN, r \in BOOLEAN, x \in BOOLEAN,
     si \in {Undefined, <<"a">>}, t \in {Undefined, A, Z} :
    InitWith(c, [help |-> h, weekly |-> w, since |-> si, target |-> t],
             [DefaultEnv EXCEPT !.isRepo = r, !.fileExists = x],
             [DefaultSrc EXCEPT !.log = SmallLog(c, w)])

\* every command with every user string as its --since value or as its target;
\* for author-patterns the target may be the name of an author of the log
InitStrings ==
  \E c \in Commands, w \in BOOLEAN, u \in UserStrings, known \in BOOLEAN :
    \/ /\ ~known
       /\ \E t \in {Undefined, A} :
            InitWith(c, [NoArgs EXCEPT !.weekly = w, !.since = u, !.target = t],
                     DefaultEnv, [DefaultSrc EXCEPT !.log = SmallLog(c, w)])
    \/ /\ ~w
       /\ InitWith(c, [NoArgs EXCEPT !.target = u], DefaultEnv,
            [DefaultSrc EXCEPT !.log =
               IF c = "author-patterns" /\ known
               THEN << <<u, MailA, <<1, 7, 0>>, SubjFix>> >> \o SmallLog(c, w)
               ELSE SmallLog(c, w)])

Init == InitExtract \/ InitAuthor \/ InitFile \/ InitTimeline \/ InitFlags \/ InitStrings

Next ==
  \/ validateGitRepo
  \/ EK_Main \/ EK_GetCommitStats \/ EK_GetMostChangedFiles \/ EK_GetCommitPatterns
  \/ EK_GetBranchInsights \/ EK_GenerateReport
  \/ AP_Main \/ AP_DisplayAllAuthors \/ AP_DisplayAuthorAnalysis \/ AP_GetAuthorFiles
  \/ AP_GetAuthorCollaboration \/ AP_PrintAuthorAnalysis
  \/ FH_Main \/ FH_ExistsSync \/ FH_GetFileStats \/ FH_GetFileHistory
  \/ FH_GetFileAuthors \/ FH_GetCommitsByDate \/ FH_PrintFileHistory
  \/ CT_Main \/ CT_Header \/ CT_Weekly \/ CT_Daily \/ CT_Hours \/ CT_DaysOfWeek
  \/ RunAgain

Spec == Init /\ [][Next]_vars

----------------------------------------------------------------------------
(* The category rules on their own: one subject in, its category under      *)
(* getCommitStats and under getAuthorStats out.                             *)

ToUpperChar(c) ==
  IF \E i \in 1..26 : LowerLetters[i] = c
  THEN UpperLetters[CHOOSE i \in 1..26 : LowerLetters[i] = c]
  ELSE c

\* the category tokens, in the order of the rules
Tokens == << <<"f","i","x">>, <<"f","e","a","t">>,
             <<"r","e","f","a","c","t","o","r">>, <<"d","o","c","s">>,
             <<"t","e","s","t">>, <<"c","h","o","r","e">> >>

Capitalized(t) == [i \in 1..Len(t) |-> IF i = 1 THEN ToUpperChar(t[i]) ELSE t[i]]
AllUpper(t) == [i \in 1..Len(t) |-> ToUpperChar(t[i])]
InnerUpper(t) == [i \in 1..Len(t) |-> IF i = 2 THEN ToUpperChar(t[i]) ELSE t[i]]

TokenSpellings ==
  UNION { {Tokens[k], Capitalized(Tokens[k]), AllUpper(Tokens[k]), InnerUpper(Tokens[k])} :
          k \in 1..6 }

ClassifySubjects ==
  { v \o c \o r : v \in TokenSpellings,
                  c \in { <<":">>, <<>>, <<" ", ":">> },
                  r \in { <<>>, <<" ", "a">> } }
  \cup { <<>>, <<" ">> \o fix_lc, SubjPlain, <<":">> }

InitClassify ==
  /\ fin \in ClassifySubjects /\ fout = <<>>
  /\ cmd = "none" /\ args = NoArgs /\ env = DefaultEnv /\ src = DefaultSrc
  /\ pc = "classify" /\ run = 1 /\ clock = 0 /\ locals = NoLocals
  /\ executed = <<>> /\ stdout = <<>> /\ written = <<>> /\ exitCode = 0 - 1

Classify ==
  /\ pc = "classify"
  /\ fout' = [stats |-> StatsCategory(fin), author |-> AuthorCategory(fin)]
  /\ pc' = "classified"
  /\ UNCHANGED <<cmd, args, env, src, run, clock, locals, executed, stdout, written,
                 exitCode, fin>>

SpecClassify == InitClassify /\ [][Classify]_vars

\* the category of the first token whose spelling, among those allowed, followed by
\* a colon starts the subject; "other" when there is none
CategoryBy(subject, Allowed(_, _)) ==
  LET hits == {k \in 1..6 : /\ Len(subject) > Len(Tokens[k])
                            /\ Allowed(SubSeq(subject, 1, Len(Tokens[k])), Tokens[k])
                            /\ subject[Len(Tokens[k]) + 1] = ":"}
  IN IF hits = {} THEN "other"
     ELSE Categories[CHOOSE k \in hits : \A j \in hits : k <= j]

AnyCase(p, token) == ToLowerCase(p) = token
LowerOrCapitalized(p, token) == p = token \/ p = Capitalized(token)

\* C3, as claimed: the token may be spelled in any letter case
C3_AnyLetterCase ==
  pc = "classified" =>
    /\ fout.stats = CategoryBy(fin, AnyCase)
    /\ fout.author = CategoryBy(fin, AnyCase)

\* C3, amended: in getCommitStats and in getAuthorStats a subject is assigned the
\* first category (fix, feat, refactor, docs, test, chore) whose token, spelled
\* all in lower case or with only its first letter in upper case, followed by a
\* colon starts the subject; every other subject is assigned "other"
C3_LowerOrCapitalizedPrefix ==
  pc = "classified" =>
    /\ fout.stats = CategoryBy(fin, LowerOrCapitalized)
    /\ fout.author = CategoryBy(fin, LowerOrCapitalized)

\* a capitalized prefix has been classified, and an upper-case one has gone to other
C3_Witness ==
  /\ pc = "classified"
  /\ \/ StartsWith(fin, <<"R","e","f","a","c","t","o","r",":">>) /\ fout.stats = "refactor"
     \/ StartsWith(fin, <<"C","H","O","R","E",":">>) /\ fout.author = "other"

----------------------------------------------------------------------------
(* Properties of extract-knowledge *)

SumPatterns(p) == p.fix + p.feat + p.refactor + p.docs + p.test + p.chore + p.other
SumPeriods(t) == t.morning + t.afternoon + t.evening + t.night

\* getCommitStats has returned its histograms
HasHistograms ==
  /\ cmd = "extract-knowledge"
  /\ HasField(locals, "stats")
  /\ HasField(locals.stats, "patterns")

\* C1: after getCommitStats the seven category counts sum to the reported total,
\* for a log of any length
C1_CategoryCountsSumToTotal ==
  HasHistograms => SumPatterns(locals.stats.patterns) = locals.stats.total

\* C2: after getCommitStats the four time-of-day counts sum to the reported
\* total, for a log of any length
C2_PeriodCountsSumToTotal ==
  HasHistograms => SumPeriods(locals.stats.timeDistribution) = locals.stats.total

\* C4: with no commits in the window, extract-knowledge ends without an exception
\* and has written a report with commitsAnalyzed = 0, no authors and all-zero
\* histograms
C4_EmptyLogGivesEmptyReport ==
  (cmd = "extract-knowledge" /\ env.isRepo /\ src.log = <<>> /\ pc = "exit") =>
    /\ exitCode = 0
    /\ \A i \in 1..Len(stdout) : stdout[i] # Uncaught
    /\ Len(written) = run
    /\ written[run].metadata.commitsAnalyzed = 0
    /\ written[run].authors = <<>>
    /\ written[run].commitPatterns = ZeroPatterns
    /\ written[run].timeDistribution = ZeroTimeDistribution

----------------------------------------------------------------------------
(* Properties of the four commands *)

\* the lines that are no part of a report
NonReportTags ==
  {"usage", "Error: Not a git repository", "uncaught TypeError", "Error: File not found",
   "Error: Author not found in git history", "Available authors",
   "Analyzing git history"}

ReportLines == {i \in 1..Len(stdout) : stdout[i].tag \notin NonReportTags}

\* the queries to the log source other than the repository check
AnalysisQueries == {i \in 1..Len(executed) : executed[i].site # "git rev-parse --git-dir"}

\* the invocation asks for the usage text, which main prints before it checks
\* the repository
UsageRequested ==
  \/ cmd \in {"author-patterns", "commit-timeline"} /\ args.help
  \/ cmd = "file-history" /\ (args.help \/ args.target = Undefined)

\* C5, as claimed: outside a repository every command exits with code 1, with no
\* analysis query issued and no part of a report printed or written
C5_ExitOneOutsideRepository ==
  ~env.isRepo =>
    /\ AnalysisQueries = {} /\ ReportLines = {} /\ written = <<>>
    /\ pc = "exit" => exitCode = 1

\* C5, amended: outside a repository no command issues an analysis query or
\* prints or writes any part of a report; it exits with code 1, except that
\* file-history, author-patterns and commit-timeline exit with code 0 when the
\* usage text is requested (--help or -h; for file-history also no argument),
\* which they print before the repository is checked
C5_NoAnalysisOutsideRepository ==
  ~env.isRepo =>
    /\ AnalysisQueries = {} /\ ReportLines = {} /\ written = <<>>
    /\ pc = "exit" => exitCode = IF UsageRequested THEN 0 ELSE 1

\* commit-timeline has exited with code 1 outside a repository, its only command
\* line the repository check
C5_Witness ==
  /\ ~env.isRepo /\ cmd = "commit-timeline" /\ pc = "exit" /\ exitCode = 1
  /\ Len(executed) = 1
  /\ stdout[Len(stdout)].tag = "Error: Not a git repository"

----------------------------------------------------------------------------
(* Properties of author-patterns *)

\* the author names of the log, and the number of its lines with a given name
LogNames == {src.log[i][1] : i \in 1..Len(src.log)}
LinesOf(name) == Cardinality({i \in 1..Len(src.log) : src.log[i][1] = name})

\* a line with fewer values than the four getAuthorStats destructures
CutLines == {i \in 1..Len(src.log) : Len(src.log[i]) < 4}

PerAuthorQueries ==
  {i \in 1..Len(executed) :
     executed[i].site \in {"getAuthorFiles: git log --author",
                           "getAuthorCollaboration: git log --author",
                           "getAuthorCollaboration: git show",
                           "getAuthorCollaboration: git log range"}}

\* the lists printed under 'Available authors:'
AvailableLists ==
  {stdout[i].val : i \in {j \in 1..Len(stdout) : stdout[j].tag = "Available authors"}}

\* author-patterns has ended a request for an author who is not in the log
UnknownAuthorRequest ==
  /\ cmd = "author-patterns" /\ env.isRepo /\ ~args.help
  /\ args.target # Undefined /\ args.target \notin LogNames
  /\ pc = "exit"

\* names is the first n entries of a ranking of the log's authors by descending
\* number of commits
IsTopOfRanking(names, n) ==
  /\ Len(names) = n
  /\ \A i \in 1..n : names[i] \in LogNames
  /\ \A i, j \in 1..n : i # j => names[i] # names[j]
  /\ \A i \in 1..(n - 1) : LinesOf(names[i]) >= LinesOf(names[i + 1])
  /\ \A a \in LogNames :
       (\A i \in 1..n : names[i] # a) => \A i \in 1..n : LinesOf(names[i]) >= LinesOf(a)

\* C6, as claimed (for a log getAuthorStats gets through): the error lists all
\* known authors in descending commit-count order
C6_ErrorListsAllAuthors ==
  (UnknownAuthorRequest /\ CutLines = {}) =>
    /\ exitCode # 0 /\ ReportLines = {} /\ PerAuthorQueries = {}
    /\ \E names \in AvailableLists : IsTopOfRanking(names, Cardinality(LogNames))

\* C6, amended: a request for an author who is not in the log exits with a
\* non-zero code, prints no part of the per-author report and issues no
\* per-author query; its error lists the known authors in descending commit-count
\* order, the first 10 of them at most (TOP_AUTHORS in the model), unless
\* getAuthorStats was aborted by a line without a subject, in which case nothing
\* is listed
C6_ErrorListsTopAuthors ==
  UnknownAuthorRequest =>
    /\ exitCode = 1 /\ ReportLines = {} /\ PerAuthorQueries = {}
    /\ IF CutLines # {} THEN AvailableLists = {}
       ELSE /\ Cardinality(AvailableLists) = 1
            /\ \A names \in AvailableLists :
                 IsTopOfRanking(names, Min(TOP_AUTHORS, Cardinality(LogNames)))

\* an unknown author was asked for in a log of three authors, and two were listed
C6_Witness ==
  /\ UnknownAuthorRequest /\ Cardinality(LogNames) = 3 /\ exitCode = 1
  /\ \E names \in AvailableLists : Len(names) = 2 /\ LinesOf(names[1]) > LinesOf(names[2])

----------------------------------------------------------------------------
(* Properties of the command lines *)

\* C7, as claimed: no executed command contains a backtick, a dollar sign or a
\* backslash that comes from the user's file path, author name or --since value
C7_NoShellMetaInCommands ==
  \A i \in 1..Len(executed) : \A k \in 1..Len(executed[i].user) :
    \A n \in 1..Len(executed[i].user[k]) : executed[i].user[k][n] \notin ShellMeta

\* the call sites that pass the user's value through sanitizeGitInput
SanitizedSites ==
  {"getFileStats: git log --follow --numstat", "getFileHistory: git log --follow",
   "getFileAuthors: git blame", "getCommitsByDate: git log --follow --since",
   "getAuthorFiles: git log --author", "getAuthorCollaboration: git log --author"}

\* position i of s follows an odd number of backslashes
RECURSIVE Escaped(_, _)
Escaped(s, i) == i > 1 /\ s[i - 1] = BSL /\ ~Escaped(s, i - 1)

\* between double quotes, s neither closes the quotes nor starts a substitution
\* nor escapes the closing quote
DoubleQuoteSafe(s) ==
  /\ \A i \in 1..Len(s) : s[i] \in {DQ, BQ, DOLLAR} => Escaped(s, i)
  /\ ~Escaped(s, Len(s) + 1)

\* C8, as claimed: a value returned by sanitizeGitInput stays inside the double
\* quotes it is interpolated between, and a non-string input raises TypeError
C8_SanitizedValueStaysQuoted ==
  /\ sanitizeGitInput(NonString).threw
  /\ \A i \in 1..Len(executed) :
       executed[i].site \in SanitizedSites =>
         \A k \in 1..Len(executed[i].user) : DoubleQuoteSafe(executed[i].user[k])

----------------------------------------------------------------------------
(* Properties of the ingestion of cut lines *)

\* C9, as claimed: over a log that is not empty, whatever lines are cut short,
\* no command is aborted by an exception
C9_CutLineNeverAborts ==
  (Len(src.log) > 0 \/ Len(src.recent) > 0) =>
    \A i \in 1..Len(stdout) : stdout[i] # Uncaught

----------------------------------------------------------------------------
(* Properties of the written report *)

\* the report without its generation time
WithoutGeneratedAt(report) == [report EXCEPT !.metadata.generatedAt = 0]

----------------------------------------------------------------------------
(* The shell pipeline of getMostChangedFiles and getAuthorFiles:            *)
(*   git log --name-only --pretty=format: | sort | uniq -c | sort -rn |     *)
(*   head -n limit                                                          *)
(* on the lines git log prints: one path per file touched per commit and a  *)
(* blank line between commits.                                              *)

\* the byte of a character (the order sort compares by in the C locale)
CharCode(c) ==
  IF c = " " THEN 32
  ELSE IF c = "." THEN 46
  ELSE IF IsDigit(c) THEN 48 + DigitVal(c)
  ELSE IF \E i \in 1..26 : UpperLetters[i] = c
       THEN 64 + (CHOOSE i \in 1..26 : UpperLetters[i] = c)
  ELSE IF \E i \in 1..26 : LowerLetters[i] = c
       THEN 96 + (CHOOSE i \in 1..26 : LowerLetters[i] = c)
  ELSE 127

\* a sorts before b, byte by byte
RECURSIVE LineLess(_, _)
LineLess(a, b) ==
  IF b = <<>> THEN FALSE
  ELSE IF a = <<>> THEN TRUE
  ELSE IF Head(a) # Head(b) THEN CharCode(Head(a)) < CharCode(Head(b))
  ELSE LineLess(Tail(a), Tail(b))

\* sort
RECURSIVE ShInsert(_, _)
ShInsert(sorted, line) ==
  IF sorted = <<>> THEN <<line>>
  ELSE IF LineLess(line, Head(sorted)) THEN <<line>> \o sorted
  ELSE <<Head(sorted)>> \o ShInsert(Tail(sorted), line)

RECURSIVE ShSort(_)
ShSort(lines) ==
  IF lines = <<>> THEN <<>>
  ELSE ShInsert(ShSort(SubSeq(lines, 1, Len(lines) - 1)), lines[Len(lines)])

\* the decimal numeral of n
RECURSIVE Numeral(_)
Numeral(n) ==
  IF n < 10 THEN <<Digits[n + 1]>> ELSE Numeral(n \div 10) \o <<Digits[(n % 10) + 1]>>

\* printf("%7d %s"): the line uniq -c prints for a run of equal lines
UniqLine(count, line) ==
  LET num == Numeral(count)
  IN [i \in 1..(7 - Min(7, Len(num))) |-> " "] \o num \o <<" ">> \o line

\* uniq -c
RECURSIVE UniqC(_, _)
UniqC(lines, n) ==
  IF n = 0 THEN <<>>
  ELSE LET same == {k \in 1..n : \A j \in k..n : lines[j] = lines[n]}
           first == CHOOSE k \in same : \A j \in same : k <= j
       IN UniqC(lines, first - 1) \o <<UniqLine(n - first + 1, lines[n])>>

\* the key of sort -n: the number a line starts with, 0 when it starts with none
NumericKey(line) == LET n == ParseInt(line) IN IF n = NaN THEN 0 ELSE n

\* sort -rn puts a before b: the greater key first, and among equal keys the
\* whole lines compared, in reverse as well
RnBefore(a, b) ==
  \/ NumericKey(a) > NumericKey(b)
  \/ NumericKey(a) = NumericKey(b) /\ LineLess(b, a)

RECURSIVE RnInsert(_, _)
RnInsert(sorted, line) ==
  IF sorted = <<>> THEN <<line>>
  ELSE IF RnBefore(line, Head(sorted)) THEN <<line>> \o sorted
  ELSE <<Head(sorted)>> \o RnInsert(Tail(sorted), line)

RECURSIVE SortRN(_)
SortRN(lines) ==
  IF lines = <<>> THEN <<>>
  ELSE RnInsert(SortRN(SubSeq(lines, 1, Len(lines) - 1)), lines[Len(lines)])

\* mutant: blank lines are dropped before they are counted
ChurnPipelineNoBlank(names, limit) ==
  LET sorted == ShSort(SelectSeq(names, LAMBDA l : l # <<>>))
  IN Slice(SortRN(UniqC(sorted, Len(sorted))), limit)

\* the output of the whole pipeline on the lines git log prints
ChurnPipeline(names, limit) ==
  LET sorted == ShSort(names)
  IN Slice(SortRN(UniqC(sorted, Len(sorted))), limit)

\* getMostChangedFiles(limit) in a repository whose git log prints names
getMostChangedFiles(names, limit) == MostChangedFilesOf(ChurnPipeline(names, limit))

----------------------------------------------------------------------------
(* The rankings on their own: a list of names in (the paths git log prints, *)
(* or the authors of a log's commits), the rankings of the code out.        *)

Reverse(list) == [i \in 1..Len(list) |-> list[Len(list) + 1 - i]]

\* the lines of git log --name-only: three paths and the blank line
RankItems == { <<"a">>, <<"a", ".", "j", "s">>, <<"b">>, <<>> }

RankLimits == {1, 2, FILES_LIMIT}

\* the %H|%an|%ae|%ad|%s lines of commits by the given authors
CommitsBy(names) ==
  [i \in 1..Len(names) |-> << <<"1">>, names[i], MailA, <<1, 7, 0>>, SubjFix>>]

\* the %an|%ae|%ad|%s lines of commits by the given authors
AuthorLinesBy(names) ==
  [i \in 1..Len(names) |-> <<names[i], MailA, <<1, 7, 0>>, SubjFix>>]

\* [name, count] of the entries of an author list
NameCounts(authors) ==
  [i \in 1..Len(authors) |-> [file |-> authors[i].name, count |-> authors[i].commits]]

InitRank ==
  /\ fin \in [names : SeqsUpTo(RankItems, MaxLen), limit : RankLimits]
  /\ fout = <<>>
  /\ cmd = "none" /\ args = NoArgs /\ env = DefaultEnv /\ src = DefaultSrc
  /\ pc = "rank" /\ run = 1 /\ clock = 0 /\ locals = NoLocals
  /\ executed = <<>> /\ stdout = <<>> /\ written = <<>> /\ exitCode = 0 - 1

\* getMostChangedFiles(limit) on the names, on the names in reverse, and
\* getMostChangedFiles() with its default limit
RankFiles ==
  /\ pc = "rank"
  /\ fout' = [files |-> getMostChangedFiles(fin.names, fin.limit),
              ofReversed |-> getMostChangedFiles(Reverse(fin.names), fin.limit),
              full |-> getMostChangedFiles(fin.names, FILES_LIMIT)]
  /\ pc' = "ranked files"
  /\ UNCHANGED <<cmd, args, env, src, run, clock, locals, executed, stdout, written,
                 exitCode, fin>>

\* the author lists of displayAllAuthors and of generateReport for commits by
\* the names, and for the same commits in reverse
RankAuthors ==
  /\ pc = "rank" /\ fin.limit = FILES_LIMIT
  /\ \A i \in 1..Len(fin.names) : fin.names[i] # <<>>
  /\ LET all(names) == NameCounts(RankedAuthors(AuthorStatsOf(AuthorLinesBy(names), env.tz).authors))
         top(names) == IF names = <<>> THEN <<>>
                       ELSE NameCounts(SortedAuthors(CommitStatsOf(CommitsBy(names), env.tz)))
     IN fout' = [authors |-> all(fin.names), ofReversed |-> all(Reverse(fin.names)),
                 sortedAuthors |-> top(fin.names),
                 sortedOfReversed |-> top(Reverse(fin.names))]
  /\ pc' = "ranked authors"
  /\ UNCHANGED <<cmd, args, env, src, run, clock, locals, executed, stdout, written,
                 exitCode, fin>>

SpecRank == InitRank /\ [][RankFiles \/ RankAuthors]_vars

\* the distinct names of a list that are not blank, and their numbers
Distinct(names) == {names[i] : i \in 1..Len(names)} \ {<<>>}
Occurrences(names, p) == Cardinality({i \in 1..Len(names) : names[i] = p})
FirstIndex(names, p) == CHOOSE i \in 1..Len(names) : names[i] = p /\ \A j \in 1..(i - 1) : names[j] # p

\* rank is the first n entries of a ranking of the names by descending count
IsTopByCount(rank, names, n) ==
  /\ Len(rank) = n
  /\ \A i \in 1..n : rank[i].file \in Distinct(names)
                     /\ rank[i].count = Occurrences(names, rank[i].file)
  /\ \A i, j \in 1..n : i # j => rank[i].file # rank[j].file
  /\ \A i \in 1..(n - 1) : rank[i].count >= rank[i + 1].count
  /\ \A p \in Distinct(names) :
       (\A i \in 1..n : rank[i].file # p) =>
          \A i \in 1..n : rank[i].count >= Occurrences(names, p)

\* among names of equal count, the one seen first in the list comes first
TiesFirstSeen(rank, names) ==
  /\ \A i, j \in 1..Len(rank) :
       (i < j /\ rank[i].count = rank[j].count) =>
          FirstIndex(names, rank[i].file) < FirstIndex(names, rank[j].file)
  /\ \A p \in Distinct(names) : \A i \in 1..Len(rank) :
       ((\A k \in 1..Len(rank) : rank[k].file # p)
          /\ rank[i].count = Occurrences(names, p)) =>
            FirstIndex(names, rank[i].file) < FirstIndex(names, p)

\* C11, as claimed: getMostChangedFiles() lists every distinct path once with the
\* number of its occurrences, in descending order of count and, among paths of
\* equal count, in the order in which they were first seen
C11_ChurnTiesFirstSeen ==
  (pc = "ranked files" /\ fin.limit = FILES_LIMIT) =>
    /\ IsTopByCount(fout.files, fin.names, Cardinality(Distinct(fin.names)))
    /\ TiesFirstSeen(fout.files, fin.names)

\* C12, as claimed: getMostChangedFiles(limit) returns min(limit, number of
\* distinct paths) entries, the first ones of the untruncated ranking in the same
\* order, whatever blank lines the log source prints
C12_LimitCountsPathsOnly ==
  pc = "ranked files" =>
    /\ Len(fout.files) = Min(fin.limit, Cardinality(Distinct(fin.names)))
    /\ fout.files = Slice(fout.full, fin.limit)
    /\ (fin.names = <<>> => fout.files = <<>>)

\* every name of the list occurs the same number of times in it
AllCountsEqual(names) ==
  \A p, q \in Distinct(names) : Occurrences(names, p) = Occurrences(names, q)

----------------------------------------------------------------------------
(* Properties of file-history *)

\* file-history has ended a request, made in a repository, for a path that is
\* not on disk
MissingFileRequest ==
  /\ cmd = "file-history" /\ env.isRepo /\ ~env.fileExists
  /\ ~args.help /\ args.target # Undefined
  /\ pc = "exit"

\* C15, as claimed: for a path that is not on disk file-history goes on and
\* prints its report, with empty or zero statistics, and does not abort
C15_MissingFileIsDegraded ==
  MissingFileRequest =>
    /\ exitCode = 0
    /\ \E i \in 1..Len(stdout) : stdout[i].tag = "file report: File Statistics"

\* C15, amended: for a path that is not on disk file-history, run inside a
\* repository, prints the error "File not found", exits with code 1, issues no
\* query about the file to the log source and prints no part of the report
C15_MissingFileIsFatal ==
  MissingFileRequest =>
    /\ exitCode = 1
    /\ \E i \in 1..Len(stdout) : stdout[i].tag = "Error: File not found"
    /\ AnalysisQueries = {} /\ ReportLines = {}

\* a request for a missing file has ended after the repository check alone
C15_Witness ==
  /\ MissingFileRequest /\ exitCode = 1
  /\ Len(executed) = 1 /\ executed[1].site = "git rev-parse --git-dir"
  /\ stdout = <<Line("Error: File not found", args.target)>>

----------------------------------------------------------------------------
(* execCommand on a command that may fail.  In the processes above src      *)
(* holds what execCommand returns; here the first query of extract-knowledge *)
(* and of file-history is execSync itself: it returns the command's output  *)
(* or throws an error that carries what the command wrote to stderr.        *)

\* error.stderr: nothing, git's "not a git repository", or another message
Stderrs == {"", "fatal: not a git repository", "fatal: bad revision"}

\* execCommand(cmd), from what execSync does: the value returned and the
\* warnings printed
execCommand(outcome) ==
  IF ~outcome.threw THEN [value |-> outcome.stdout, warnings |-> <<>>]
  ELSE [value |-> <<>>,
        warnings |-> IF outcome.stderr # "" /\ outcome.stderr # "fatal: not a git repository"
                     THEN <<Line("Warning", <<>>)>> ELSE <<>>]

InitFail ==
  /\ \/ /\ cmd = "extract-knowledge" /\ pc = "getCommitStats"
        /\ \E l \in SeqsUpTo(ExtractLines, 2), e \in Stderrs, t \in BOOLEAN :
             fin = [threw |-> t, stderr |-> e,
                    stdout |-> [n \in 1..Len(l) |-> WithHash(l[n], n)]]
     \/ /\ cmd = "file-history" /\ pc = "getFileStats"
        /\ fin \in [threw : BOOLEAN, stderr : Stderrs, stdout : {<<>>, << <<"5">> >>}]
  /\ args = [NoArgs EXCEPT !.target = <<"f">>] /\ env = DefaultEnv
  /\ src = [DefaultSrc EXCEPT !.log = SmallLog(cmd, FALSE)]
  /\ locals = [since |-> SixMonthsAgo]
  /\ executed = <<Command("git rev-parse --git-dir", <<>>)>>
  /\ run = 1 /\ clock = 0 /\ stdout = <<>> /\ written = <<>> /\ exitCode = 0 - 1
  /\ fout = <<>>

\* getCommitStats, its git log being the command that may fail
EX_GetCommitStats ==
  /\ cmd = "extract-knowledge" /\ pc = "getCommitStats"
  /\ LET commits == execCommand(fin)
     IN /\ stdout' = <<Line("Analyzing git history", locals.since)>> \o commits.warnings
        /\ locals' = Put(locals, "stats", CommitStatsOf(commits.value, env.tz))
  /\ executed' = Append(executed, Command("getCommitStats: git log --since", <<locals.since>>))
  /\ pc' = "getMostChangedFiles"
  /\ UNCHANGED <<cmd, args, env, src, run, clock, written, exitCode, fin, fout>>

\* getFileStats, its first git log being the command that may fail
EX_GetFileStats ==
  /\ cmd = "file-history" /\ pc = "getFileStats"
  /\ LET safePath == sanitizeGitInput(args.target).value
         additions == execCommand(fin)
     IN /\ executed' = executed \o
             <<Command("getFileStats: git log --numstat (additions)", <<safePath>>),
               Command("getFileStats: git log --numstat (deletions)", <<safePath>>),
               Command("getFileStats: git log --oneline", <<safePath>>),
               Command("getFileStats: wc -l", <<safePath>>)>>
        /\ stdout' = stdout \o additions.warnings
        /\ locals' = Put(locals, "stats",
              FileStatsOf(additions.value, src.dels, src.count, src.size))
  /\ pc' = "getFileHistory"
  /\ UNCHANGED <<cmd, args, env, src, run, clock, written, exitCode, fin, fout>>

NextFail ==
  \/ EX_GetCommitStats \/ EK_GetMostChangedFiles \/ EK_GetCommitPatterns
  \/ EK_GetBranchInsights \/ EK_GenerateReport
  \/ EX_GetFileStats \/ FH_GetFileHistory \/ FH_GetFileAuthors \/ FH_GetCommitsByDate
  \/ FH_PrintFileHistory

SpecFail == InitFail /\ [][NextFail]_vars

\* the command that may fail has been run
FailingCallMade == pc \notin {"getCommitStats", "getFileStats"}

FailingSite ==
  IF cmd = "extract-knowledge" THEN "getCommitStats: git log --since"
  ELSE "getFileStats: git log --numstat (additions)"

\* C14, as claimed: a failing call made through execCommand logs a warning, is
\* not retried and raises no exception; its caller goes on with an empty or
\* zero contribution and the command runs to completion
C14_FailedCallDegrades ==
  (fin.threw /\ FailingCallMade) =>
    /\ \E i \in 1..Len(stdout) : stdout[i].tag = "Warning"
    /\ Cardinality({i \in 1..Len(executed) : executed[i].site = FailingSite}) = 1
    /\ \A i \in 1..Len(stdout) : stdout[i] # Uncaught
    /\ IF cmd = "extract-knowledge" THEN locals.stats.total = 0
       ELSE locals.stats.additions = 0
    /\ pc = "exit" => exitCode = 0

----------------------------------------------------------------------------
(* Properties of commit-timeline *)

\* the daily timeline has been computed
VelocityComputed ==
  cmd = "commit-timeline" /\ "velocity" \in DOMAIN locals /\ "dailyData" \in DOMAIN locals

----------------------------------------------------------------------------
(* Properties of the fold of getCommitStats *)

\* the counts of a getCommitStats result; the result for an empty log has no
\* histograms and no authors, which count as zero
PatternsOf(stats) == IF HasField(stats, "patterns") THEN stats.patterns ELSE ZeroPatterns
TimesOf(stats) ==
  IF HasField(stats, "timeDistribution") THEN stats.timeDistribution
  ELSE ZeroTimeDistribution
CommitsOfAuthor(stats, name) ==
  IF HasField(stats, "authors") /\ HasAuthor(stats.authors, name)
  THEN stats.authors[CHOOSE i \in 1..Len(stats.authors) : stats.authors[i].name = name].commits
  ELSE 0

\* the author names of the lines of a log
AuthorsOfLog(log) == {FieldOr(log[i], 2) : i \in 1..Len(log)}

\* s has the counts of s1 and s2 added up
IsSumOfCounts(s, s1, s2, names) ==
  /\ s.total = s1.total + s2.total
  /\ \A c \in DOMAIN ZeroPatterns : PatternsOf(s)[c] = PatternsOf(s1)[c] + PatternsOf(s2)[c]
  /\ \A t \in DOMAIN ZeroTimeDistribution : TimesOf(s)[t] = TimesOf(s1)[t] + TimesOf(s2)[t]
  /\ \A a \in names : CommitsOfAuthor(s, a) = CommitsOfAuthor(s1, a) + CommitsOfAuthor(s2, a)

NoStats == [commits |-> <<>>, total |-> 0]

\* getCommitStats has just returned
StatsReturned == cmd = "extract-knowledge" /\ pc = "getMostChangedFiles"

\* C17, as claimed: the counts of getCommitStats are the same for every
\* permutation of the log, and the counts of two parts of the log add up to the
\* counts of the whole
C17_FoldIsOrderIndependent ==
  StatsReturned =>
    LET n == Len(src.log)
        names == AuthorsOfLog(src.log)
    IN /\ \A f \in Permutations(1..n) :
            IsSumOfCounts(CommitStatsOf([i \in 1..n |-> src.log[f[i]]], env.tz),
                          locals.stats, NoStats, names)
       /\ \A k \in 0..n :
            IsSumOfCounts(locals.stats, CommitStatsOf(SubSeq(src.log, 1, k), env.tz),
                          CommitStatsOf(SubSeq(src.log, k + 1, n), env.tz), names)

----------------------------------------------------------------------------
(* parseGitLog on its own: an output as text in, the list of objects out.   *)

\* parseGitLog(output, fields) on an output given as its lines of text
parseGitLogText(output, fields) ==
  IF output = <<>> THEN <<>>
  ELSE LET lines == TrimSplitLines(output)
       IN [n \in 1..Len(lines) |-> ParseLine(SplitOn(lines[n], "|"), fields)]

ParseChars == {"a", "|"}
ParseFields == { <<"author">>, <<"date", "subject">>, CommitFields }

InitParse ==
  /\ \E l \in SeqsUpTo(SeqsUpTo(ParseChars, MaxLen), 2), f \in ParseFields :
       fin = [output |-> l, fields |-> f]
  /\ fout = <<>>
  /\ cmd = "none" /\ args = NoArgs /\ env = DefaultEnv /\ src = DefaultSrc
  /\ pc = "parse" /\ run = 1 /\ clock = 0 /\ locals = NoLocals
  /\ executed = <<>> /\ stdout = <<>> /\ written = <<>> /\ exitCode = 0 - 1

ParseGitLog ==
  /\ pc = "parse"
  /\ fout' = parseGitLogText(fin.output, fin.fields)
  /\ pc' = "parsed"
  /\ UNCHANGED <<cmd, args, env, src, run, clock, locals, executed, stdout, written,
                 exitCode, fin>>

SpecParse == InitParse /\ [][ParseGitLog]_vars

\* the number of delimiters of a line, and the position of its m-th delimiter
\* (0 for m = 0, one past the end when there are fewer)
BarCount(line) == Cardinality({i \in 1..Len(line) : line[i] = "|"})
BarAt(line, m) ==
  IF m = 0 THEN 0
  ELSE IF m > BarCount(line) THEN Len(line) + 1
  ELSE CHOOSE i \in 1..Len(line) :
         line[i] = "|" /\ Cardinality({j \in 1..i : line[j] = "|"}) = m

\* the k-th delimiter-separated value of a line, the empty string past the last
ValueAt(line, k) ==
  IF k > BarCount(line) + 1 THEN <<>>
  ELSE SubSeq(line, BarAt(line, k - 1) + 1, BarAt(line, k) - 1)

\* C18: parseGitLog returns one object per line with exactly the declared field
\* names as keys; the k-th field is the k-th delimiter-separated value of the
\* line, the empty string when the line has fewer values, and values past the
\* last declared field are left out
C18_ParseGitLogFillsAndIgnores ==
  (pc = "parsed" /\ fin.output # <<>>) =>
    LET lines == TrimSplitLines(fin.output)
        fields == fin.fields
    IN /\ Len(fout) = Len(lines)
       /\ \A n \in 1..Len(lines) :
            /\ DOMAIN fout[n] = {fields[k] : k \in 1..Len(fields)}
            /\ \A k \in 1..Len(fields) : fout[n][fields[k]] = ValueAt(lines[n], k)

\* an output with a line of fewer values than fields and a line of more values
\* than fields has been parsed
C18_Witness ==
  /\ pc = "parsed" /\ Len(fin.fields) = 2 /\ Len(fout) = 2
  /\ fin.output = << <<"a">>, <<"a", "|", "|", "a">> >>
  /\ fout[1] = [date |-> <<"a">>, subject |-> <<>>]
  /\ fout[2] = [date |-> <<"a">>, subject |-> <<>>]

----------------------------------------------------------------------------
(* Properties of commits without a readable timestamp *)

\* the lines of the log whose date field is no date
UndatedLines == {i \in 1..Len(src.log) : ~IsDate(FieldOr(src.log[i], 4))}

\* C19, as claimed: every commit whose timestamp cannot be parsed is counted by
\* getCommitStats in the total, in a category, in its author's commits and in
\* the night period
C19_UndatedCommitIsCounted ==
  (StatsReturned /\ UndatedLines # {}) =>
    /\ locals.stats.total >= Cardinality(UndatedLines)
    /\ SumPatterns(PatternsOf(locals.stats)) >= Cardinality(UndatedLines)
    /\ TimesOf(locals.stats).night >= Cardinality(UndatedLines)
    /\ \A a \in AuthorsOfLog(src.log) :
         CommitsOfAuthor(locals.stats, a) >=
           Cardinality({i \in UndatedLines : FieldOr(src.log[i], 2) = a})

----------------------------------------------------------------------------
(* The time-of-day periods on their own: a commit date and the time zone of *)
(* the process in, the period counted by getCommitStats and the one counted *)
(* by analyzeWorkingHours out.                                              *)

InitPeriod ==
  /\ \E h \in 0..23, off \in {0, 2}, tz \in {0, 5}, d \in BOOLEAN :
       /\ fin = IF d THEN <<1, h, off>> ELSE <<>>
       /\ env = [DefaultEnv EXCEPT !.tz = tz]
  /\ fout = <<>>
  /\ cmd = "none" /\ args = NoArgs /\ src = DefaultSrc
  /\ pc = "period" /\ run = 1 /\ clock = 0 /\ locals = NoLocals
  /\ executed = <<>> /\ stdout = <<>> /\ written = <<>> /\ exitCode = 0 - 1

\* one pass of the forEach of getCommitStats over a commit of that date, and
\* analyzeWorkingHours over the hour getAuthorStats records for it
CountPeriod ==
  /\ pc = "period"
  /\ LET hour == GetHours(fin, env.tz)
         commit == [hash |-> <<"1">>, author |-> A, email |-> MailA, date |-> fin,
                    subject |-> SubjFix]
         stats == [commits |-> <<>>, total |-> 1, authors |-> <<>>,
                   patterns |-> ZeroPatterns, timeDistribution |-> ZeroTimeDistribution]
     IN fout' = [hour |-> hour,
                 stats |-> StatsStep(stats, commit, env.tz).timeDistribution,
                 author |-> analyzeWorkingHours(<<hour>>).periods]
  /\ pc' = "counted"
  /\ UNCHANGED <<cmd, args, env, src, run, clock, locals, executed, stdout, written,
                 exitCode, fin>>

SpecPeriod == InitPeriod /\ [][CountPeriod]_vars

\* the period of the claim
ClaimedPeriod(h) ==
  IF 6 <= h /\ h < 12 THEN "morning"
  ELSE IF 12 <= h /\ h < 17 THEN "afternoon"
  ELSE IF 17 <= h /\ h < 21 THEN "evening"
  ELSE "night"

----------------------------------------------------------------------------
(* The author rankings on their own: the names and emails of a log's        *)
(* commits in, the author lists of generateReport and displayAllAuthors out *)

\* an author whose name is a numeral
Seven == <<"7">>

AuthorItems == {A, B, Seven} \X {MailA, MailB}

InitAuthors ==
  /\ fin \in SeqsUpTo(AuthorItems, MAX_COMMITS)
  /\ fin # <<>>
  /\ fout = <<>>
  /\ cmd = "none" /\ args = NoArgs /\ env = DefaultEnv /\ src = DefaultSrc
  /\ pc = "authors" /\ run = 1 /\ clock = 0 /\ locals = NoLocals
  /\ executed = <<>> /\ stdout = <<>> /\ written = <<>> /\ exitCode = 0 - 1

\* sortedAuthors of generateReport over getCommitStats, and the authors of
\* displayAllAuthors over getAuthorStats, for commits by the given authors
ListAuthors ==
  /\ pc = "authors"
  /\ LET log == [i \in 1..Len(fin) |-> <<fin[i][1], fin[i][2], <<1, 7, 0>>, SubjFix>>]
         commits == [i \in 1..Len(fin) |-> <<<<"1">>>> \o log[i]]
     IN fout' = [names |-> [i \in 1..Len(fin) |-> fin[i][1]],
                 report |-> SortedAuthors(CommitStatsOf(commits, env.tz)),
                 all |-> RankedAuthors(AuthorStatsOf(log, env.tz).authors)]
  /\ pc' = "listed"
  /\ UNCHANGED <<cmd, args, env, src, run, clock, locals, executed, stdout, written,
                 exitCode, fin>>

SpecAuthors == InitAuthors /\ [][ListAuthors]_vars

\* C21, as claimed: the author lists of the report (its first TOP_AUTHORS
\* authors) and of displayAllAuthors have one entry per distinct author name,
\* whatever the emails, with the number of the author's commits, in descending
\* order of commits and, among authors of equal count, in the order in which
\* the authors first appear in the log
C21_AuthorTiesInsertionOrder ==
  pc = "listed" =>
    LET n == Cardinality(Distinct(fout.names))
    IN /\ IsTopByCount(NameCounts(fout.all), fout.names, n)
       /\ TiesFirstSeen(NameCounts(fout.all), fout.names)
       /\ IsTopByCount(NameCounts(fout.report), fout.names, Min(TOP_AUTHORS, n))
       /\ TiesFirstSeen(NameCounts(fout.report), fout.names)

----------------------------------------------------------------------------
(* getCommitPatterns on its own: the subjects git log prints in, the word   *)
(* and phrase rankings out                                                  *)

\* the i-th of the four-letter words aaaa, aaab, .., aaaz
WordNo(i) == <<"a", "a", "a", LowerLetters[i]>>

\* one subject of WORDS_TOP + 1 different words
LongSubject == JoinSp([i \in 1..(WORDS_TOP + 1) |-> WordNo(i)])

\* PHRASES_TOP + 1 different subjects, each of them twice
ManySubjects == [i \in 1..(2 * (PHRASES_TOP + 1)) |->
                   <<"f", "i", "x", " ">> \o WordNo(((i - 1) % (PHRASES_TOP + 1)) + 1)]

PatternSubjects ==
  { <<"F","i","x"," "," ","t","y","p","o">>,
    <<"f","i","x"," ","t","y","p","o">>,
    <<" ","t","y","p","o"," ","T","Y","P","O","\t">>,
    <<"w","i","t","h"," ","t","h","i","s"," ","c","o","d","e">>,
    <<"a","d","d"," ","t","h","e"," ","f","i","x">>,
    <<"c","o","d","e","s">>,
    <<>> }

\* subjects per log
MaxSubjects == 3

InitPatterns ==
  /\ fin \in SeqsUpTo(PatternSubjects, MaxSubjects) \cup {<<LongSubject>>, ManySubjects}
  /\ fout = <<>>
  /\ cmd = "none" /\ args = NoArgs /\ env = DefaultEnv /\ src = DefaultSrc
  /\ pc = "patterns" /\ run = 1 /\ clock = 0 /\ locals = NoLocals
  /\ executed = <<>> /\ stdout = <<>> /\ written = <<>> /\ exitCode = 0 - 1

GetCommitPatterns ==
  /\ pc = "patterns"
  /\ fout' = CommitPatternsOf(fin)
  /\ pc' = "mined"
  /\ UNCHANGED <<cmd, args, env, src, run, clock, locals, executed, stdout, written,
                 exitCode, fin>>

SpecPatterns == InitPatterns /\ [][GetCommitPatterns]_vars

\* the places <<subject, position>> where a token starts, and the token there
TokenStarts(s) == {st \in 1..Len(s) : ~IsWs(s[st]) /\ (st = 1 \/ IsWs(s[st - 1]))}
TokenAt(s, st) ==
  SubSeq(s, st, CHOOSE e \in st..Len(s) :
                   /\ \A k \in st..e : ~IsWs(s[k])
                   /\ (e = Len(s) \/ IsWs(s[e + 1])))
TokenSites(subjects) ==
  UNION {{<<m, st>> : st \in TokenStarts(subjects[m])} : m \in 1..Len(subjects)}
WordAt(subjects, site) == TokenAt(ToLowerCase(subjects[site[1]]), site[2])

IsKeyword(w) == Len(w) > 3 /\ w \notin StopWords
Keywords(subjects) ==
  {w \in {WordAt(subjects, site) : site \in TokenSites(subjects)} : IsKeyword(w)}
WordCount(subjects, w) ==
  Cardinality({site \in TokenSites(subjects) : WordAt(subjects, site) = w})
SiteBefore(a, b) == a[1] < b[1] \/ (a[1] = b[1] /\ a[2] < b[2])
FirstSite(subjects, w) ==
  CHOOSE site \in TokenSites(subjects) :
    /\ WordAt(subjects, site) = w
    /\ \A other \in TokenSites(subjects) :
         WordAt(subjects, other) = w => (other = site \/ SiteBefore(site, other))

\* C22: commonWords of getCommitPatterns holds lower-cased whitespace-separated
\* tokens longer than 3 characters that are no stop words, each once with the
\* number of its occurrences in all subjects, in descending order of count,
\* tokens of equal count in the order in which they are first seen, and it is
\* the first WORDS_TOP entries of that order
C22_KeywordRanking ==
  pc = "mined" =>
    LET words == fout.commonWords
        n == Len(words)
    IN /\ n = Min(WORDS_TOP, Cardinality(Keywords(fin)))
       /\ \A i \in 1..n : /\ words[i].word \in Keywords(fin)
                          /\ words[i].count = WordCount(fin, words[i].word)
       /\ \A i, j \in 1..n : i # j => words[i].word # words[j].word
       /\ \A i, j \in 1..n : i < j =>
            \/ words[i].count > words[j].count
            \/ /\ words[i].count = words[j].count
               /\ SiteBefore(FirstSite(fin, words[i].word), FirstSite(fin, words[j].word))
       /\ \A w \in Keywords(fin) : (\A i \in 1..n : words[i].word # w) =>
            \A i \in 1..n :
              \/ words[i].count > WordCount(fin, w)
              \/ /\ words[i].count = WordCount(fin, w)
                 /\ SiteBefore(FirstSite(fin, words[i].word), FirstSite(fin, w))

\* a subject of WORDS_TOP + 1 different words was mined and its last word left out
C22_Witness ==
  /\ pc = "mined" /\ fin = <<LongSubject>>
  /\ Len(fout.commonWords) = WORDS_TOP
  /\ \A i \in 1..WORDS_TOP : fout.commonWords[i].word = WordNo(i)

\* a stop word, a short word and a word seen twice in upper and lower case
C22_WitnessMixed ==
  /\ pc = "mined"
  /\ fin = << <<"w","i","t","h"," ","t","h","i","s"," ","c","o","d","e">>,
              <<" ","t","y","p","o"," ","T","Y","P","O","\t">> >>
  /\ fout.commonWords = << [word |-> <<"t","y","p","o">>, count |-> 2],
                           [word |-> <<"c","o","d","e">>, count |-> 1] >>

\* the tokens of a string in their order, and the string with its runs of
\* whitespace collapsed to one space and trimmed
TokensOf(s) ==
  [k \in 1..Cardinality(TokenStarts(s)) |->
     TokenAt(s, CHOOSE st \in TokenStarts(s) :
                  Cardinality({x \in TokenStarts(s) : x < st}) = k - 1)]
WsNormal(s) == JoinSp(TokensOf(s))

\* phrases is the ranking of the keys (one per subject) that are longer than 5
\* characters and occur at least twice: each once with the number of its
\* occurrences, in descending order of count, keys of equal count in the order
\* in which they are first seen, cut after PHRASES_TOP entries
IsPhraseRanking(phrases, keys) ==
  LET kept == {keys[m] : m \in {i \in 1..Len(keys) :
                                  Len(keys[i]) > 5 /\ Occurrences(keys, keys[i]) >= 2}}
      n == Len(phrases)
  IN /\ n = Min(PHRASES_TOP, Cardinality(kept))
     /\ \A i \in 1..n : /\ phrases[i].phrase \in kept
                        /\ phrases[i].count = Occurrences(keys, phrases[i].phrase)
     /\ \A i, j \in 1..n : i < j =>
          /\ phrases[i].phrase # phrases[j].phrase
          /\ \/ phrases[i].count > phrases[j].count
             \/ /\ phrases[i].count = phrases[j].count
                /\ FirstIndex(keys, phrases[i].phrase) < FirstIndex(keys, phrases[j].phrase)
     /\ \A p \in kept : (\A i \in 1..n : phrases[i].phrase # p) =>
          \A i \in 1..n :
            \/ phrases[i].count > Occurrences(keys, p)
            \/ /\ phrases[i].count = Occurrences(keys, p)
               /\ FirstIndex(keys, phrases[i].phrase) < FirstIndex(keys, p)

\* C23, as claimed: the phrase key of a subject is the subject with its runs of
\* whitespace collapsed to one space and trimmed, and nothing else; commonPhrases
\* ranks the keys longer than 5 characters that at least 2 subjects have, by
\* descending count, ties in first-seen order, at most PHRASES_TOP of them
C23_PhraseKeyIsWhitespaceNormalised ==
  pc = "mined" =>
    IsPhraseRanking(fout.commonPhrases, [m \in 1..Len(fin) |-> WsNormal(fin[m])])

\* C23, amended: the phrase key of a subject is the lower-cased subject with
\* its runs of whitespace collapsed to one space and trimmed, so that subjects
\* that differ in letter case only count toward one phrase; commonPhrases ranks
\* the keys longer than 5 characters that at least 2 subjects have, by
\* descending count, ties in first-seen order, at most PHRASES_TOP of them
C23_PhraseKeyIsLowerCased ==
  pc = "mined" =>
    IsPhraseRanking(fout.commonPhrases,
                    [m \in 1..Len(fin) |-> WsNormal(ToLowerCase(fin[m]))])

\* two subjects that differ in case and spacing were counted as one phrase
C23_Witness ==
  /\ pc = "mined"
  /\ fin = << <<"F","i","x"," "," ","t","y","p","o">>, <<"f","i","x"," ","t","y","p","o">> >>
  /\ fout.commonPhrases = <<[phrase |-> <<"f","i","x"," ","t","y","p","o">>, count |-> 2]>>

----------------------------------------------------------------------------
(* getFileAuthors on its own: the lines of git blame --line-porcelain in,   *)
(* the authors and the rows of their table out                              *)

BlameLines ==
  { AuthorPrefix \o A, AuthorPrefix \o B, AuthorPrefix \o Seven,
    <<"\t">> \o AuthorPrefix \o A,
    <<"a","u","t","h","o","r","-","m","a","i","l"," ","<","a",">">>,
    <<"x">> }

InitBlame ==
  /\ fin \in SeqsUpTo(BlameLines, MaxLen)
  /\ fout = <<>>
  /\ cmd = "none" /\ args = NoArgs /\ env = DefaultEnv /\ src = DefaultSrc
  /\ pc = "blame" /\ run = 1 /\ clock = 0 /\ locals = NoLocals
  /\ executed = <<>> /\ stdout = <<>> /\ written = <<>> /\ exitCode = 0 - 1

GetFileAuthors ==
  /\ pc = "blame"
  /\ LET authors == FileAuthorsOf(fin)
     IN fout' = [authors |-> authors, table |-> AuthorsTableOf(authors)]
  /\ pc' = "blamed"
  /\ UNCHANGED <<cmd, args, env, src, run, clock, locals, executed, stdout, written,
                 exitCode, fin>>

SpecBlame == InitBlame /\ [][GetFileAuthors]_vars

\* the author of every line of the file, in the order of the lines
AttributedTo(blame) ==
  LET headers == SelectSeq(blame, LAMBDA line : StartsWith(line, AuthorPrefix))
  IN [i \in 1..Len(headers) |-> SubSeq(headers[i], Len(AuthorPrefix) + 1, Len(headers[i]))]

\* C24: getFileAuthors returns every author of the blame once with the number
\* of the lines attributed to them, in descending order of lines, authors of
\* equal count in the order in which they are first seen; the line counts add up
\* to the number of attributed lines, and every percentage shown is
\* lines / totalLines x 100 over that sum, to one decimal
C24_FileAuthorsRanking ==
  pc = "blamed" =>
    LET names == AttributedTo(fin)
        total == Len(names)
        rank == [i \in 1..Len(fout.authors) |->
                   [file |-> fout.authors[i].author, count |-> fout.authors[i].lines]]
    IN /\ IsTopByCount(rank, names, Cardinality(Distinct(names)))
       /\ TiesFirstSeen(rank, names)
       /\ SumLines(fout.authors, Len(fout.authors)) = total
       /\ Len(fout.table) = Min(BLAME_TOP, Len(fout.authors))
       /\ \A i \in 1..Len(fout.table) :
            LET row == fout.table[i]
            IN /\ row.author = fout.authors[i].author
               /\ row.lines = Occurrences(names, row.author)
               /\ 2 * total * row.percentage - 2000 * row.lines \in (1 - total)..total

\* three authors of one file, two with one line each and the one seen last with
\* two: 50.0% for that one and 25.0% for the first of the others, the third
\* author not being shown
C24_Witness ==
  /\ pc = "blamed"
  /\ AttributedTo(fin) = <<A, Seven, B, B>>
  /\ fout.authors = <<[author |-> B, lines |-> 2], [author |-> A, lines |-> 1],
                      [author |-> Seven, lines |-> 1]>>
  /\ fout.table = <<[author |-> B, lines |-> 2, percentage |-> 500],
                    [author |-> A, lines |-> 1, percentage |-> 250]>>

----------------------------------------------------------------------------
(* getAuthorCollaboration on its own: the author and, for each of the       *)
(* author's commits, the names printed by git log <hash>~1..<hash> in, the  *)
(* collaborators out                                                        *)

\* results per author
MaxResults == 2

CollabNames == {A, B, C, Z}

InitCollab ==
  /\ fin \in [authorName : {A},
              ranges : SeqsUpTo(SeqsUpTo(CollabNames, 2), MaxResults) \ {<<>>}]
  /\ fout = <<>>
  /\ cmd = "none" /\ args = NoArgs /\ env = DefaultEnv /\ src = DefaultSrc
  /\ pc = "collaboration" /\ run = 1 /\ clock = 0 /\ locals = NoLocals
  /\ executed = <<>> /\ stdout = <<>> /\ written = <<>> /\ exitCode = 0 - 1

GetAuthorCollaboration ==
  /\ pc = "collaboration"
  /\ fout' = AuthorCollaborationOf([n \in 1..Len(fin.ranges) |-> <<Digits[n + 1]>>],
                                   fin.ranges, fin.authorName)
  /\ pc' = "collaborators"
  /\ UNCHANGED <<cmd, args, env, src, run, clock, locals, executed, stdout, written,
                 exitCode, fin>>

SpecCollab == InitCollab /\ [][GetAuthorCollaboration]_vars

\* the results that name the author, and the lines that do
ResultsWith(ranges, name) ==
  {n \in 1..Len(ranges) : \E i \in 1..Len(ranges[n]) : ranges[n][i] = name}
LinesWith(ranges, name) ==
  UNION {{<<n, i>> : i \in {k \in 1..Len(ranges[n]) : ranges[n][k] = name}} :
           n \in 1..Len(ranges)}

\* the part of C25 that does not depend on what is counted
IsCollaboratorList(list, authorName) ==
  /\ \A i \in 1..Len(list) : list[i].author # authorName /\ list[i].count >= 1
  /\ \A i, j \in 1..Len(list) : i # j => list[i].author # list[j].author
  /\ \A i \in 1..(Len(list) - 1) : list[i].count >= list[i + 1].count
  /\ Len(list) <= COLLABORATORS_TOP

\* C25, as claimed: the list of getAuthorCollaboration(author) never holds the
\* author, holds every other author at most once with a count of at least 1
\* that is the number of adjacent-range results in which that author appears,
\* is in descending order of count and has at most COLLABORATORS_TOP entries
C25_CountIsNumberOfResults ==
  pc = "collaborators" =>
    /\ IsCollaboratorList(fout, fin.authorName)
    /\ \A i \in 1..Len(fout) :
         fout[i].count = Cardinality(ResultsWith(fin.ranges, fout[i].author))

\* C25, amended: as above, the count of a collaborator being the number of
\* lines that name them in all adjacent-range results (the number of their
\* commits in the ranges: a result that names a collaborator twice counts twice)
C25_CountIsNumberOfLines ==
  pc = "collaborators" =>
    /\ IsCollaboratorList(fout, fin.authorName)
    /\ \A i \in 1..Len(fout) :
         fout[i].count = Cardinality(LinesWith(fin.ranges, fout[i].author))

\* one result names B twice, another one names the author and C
C25_Witness ==
  /\ pc = "collaborators"
  /\ fin.ranges = <<<<B, B>>, <<A, C>>>>
  /\ fout = <<[author |-> B, count |-> 2], [author |-> C, count |-> 1]>>

\* three collaborators, of whom COLLABORATORS_TOP are returned
C25_WitnessCut ==
  /\ pc = "collaborators"
  /\ fin.ranges = <<<<B, C>>, <<Z, A>>>>
  /\ Len(fout) = COLLABORATORS_TOP

----------------------------------------------------------------------------
(* calculateVelocity on its own: the day buckets of an object in (in the    *)
(* order of their insertion), the velocity out                              *)

\* day buckets per object
MaxBuckets == 3

BucketCommits == {0, 4, 5, 6, 7}

\* the objects of up to MaxBuckets day keys, in every order of insertion
DayObjects ==
  {data \in SeqsUpTo([date : {<<"D", d>> : d \in 1..MaxBuckets}, commits : BucketCommits],
                     MaxBuckets) :
     \A i, j \in 1..Len(data) : i # j => data[i].date # data[j].date}

InitVelocity ==
  /\ fin \in DayObjects
  /\ fout = <<>>
  /\ cmd = "none" /\ args = NoArgs /\ env = DefaultEnv /\ src = DefaultSrc
  /\ pc = "velocity" /\ run = 1 /\ clock = 0 /\ locals = NoLocals
  /\ executed = <<>> /\ stdout = <<>> /\ written = <<>> /\ exitCode = 0 - 1

CalculateVelocity ==
  /\ pc = "velocity"
  /\ fout' = calculateVelocity(fin)
  /\ pc' = "estimated"
  /\ UNCHANGED <<cmd, args, env, src, run, clock, locals, executed, stdout, written,
                 exitCode, fin>>

SpecVelocity == InitVelocity /\ [][CalculateVelocity]_vars

\* the commits of the buckets whose place in the order of the dates is in
\* from..to
CommitsOfPlaces(data, from, to) ==
  LET place(i) == Cardinality({j \in 1..Len(data) : data[j].date[2] < data[i].date[2]}) + 1
      S == {i \in 1..Len(data) : place(i) \in from..to}
      sum[T \in SUBSET S] ==
        IF T = {} THEN 0
        ELSE LET i == CHOOSE x \in T : TRUE IN data[i].commits + sum[T \ {i}]
  IN sum[S]

C27_AverageOverBuckets ==
  (pc = "estimated" /\ Len(fin) >= 1) =>
    LET n == Len(fin)
        total == CommitsOfPlaces(fin, 1, n)
    IN 2 * n * fout.avgDaily - 20 * total \in (1 - n)..n

----------------------------------------------------------------------------
(* getCommitsByDay on its own: the %ad|%an|%s lines of git log in, the day  *)
(* buckets out                                                              *)

BucketLines ==
  { <<<<"D", 1>>, A, SubjFix>>, <<<<"D", 1>>, B, SubjFeat>>,
    <<<<"D", 2>>, A, SubjPlain>>, <<<<"D", 2>>>> }

InitBuckets ==
  /\ fin \in SeqsUpTo(BucketLines, SAMPLE_SUBJECTS + 1)
  /\ fout = <<>>
  /\ cmd = "none" /\ args = NoArgs /\ env = DefaultEnv /\ src = DefaultSrc
  /\ pc = "buckets" /\ run = 1 /\ clock = 0 /\ locals = NoLocals
  /\ executed = <<>> /\ stdout = <<>> /\ written = <<>> /\ exitCode = 0 - 1

GetCommitsByDay ==
  /\ pc = "buckets"
  /\ fout' = CommitsByDayOf(fin)
  /\ pc' = "bucketed"
  /\ UNCHANGED <<cmd, args, env, src, run, clock, locals, executed, stdout, written,
                 exitCode, fin>>

SpecBuckets == InitBuckets /\ [][GetCommitsByDay]_vars

\* the lines of a day, and the k-th of them
LinesOfDay(log, day) == {n \in 1..Len(log) : Elem(log[n], 1) = day}
NthOf(S, k) == CHOOSE n \in S : Cardinality({m \in S : m < n}) = k - 1

\* C28: getCommitsByDay has one bucket for every day key of the log and no
\* other; a bucket has the number of the day's lines as its commits (at least
\* 1), the number of their distinct authors (between 1 and commits) and the
\* first min(SAMPLE_SUBJECTS, commits) subjects of the day in their order; the
\* commits of the buckets add up to the number of lines
C28_DayBuckets ==
  pc = "bucketed" =>
    /\ {fout[i].date : i \in 1..Len(fout)} = {Elem(fin[n], 1) : n \in 1..Len(fin)}
    /\ \A i, j \in 1..Len(fout) : i # j => fout[i].date # fout[j].date
    /\ \A i \in 1..Len(fout) :
         LET lines == LinesOfDay(fin, fout[i].date)
         IN /\ fout[i].commits = Cardinality(lines) /\ fout[i].commits >= 1
            /\ fout[i].authors = Cardinality({Elem(fin[n], 2) : n \in lines})
            /\ 1 <= fout[i].authors /\ fout[i].authors <= fout[i].commits
            /\ Len(fout[i].subjects) = Min(SAMPLE_SUBJECTS, fout[i].commits)
            /\ \A k \in 1..Len(fout[i].subjects) :
                 fout[i].subjects[k] = Elem(fin[NthOf(lines, k)], 3)
    /\ SumCommits(fout, 1, Len(fout)) = Len(fin)

\* a day of SAMPLE_SUBJECTS + 1 commits by two authors: the last subject is
\* not among the samples
C28_Witness ==
  /\ pc = "bucketed"
  /\ Len(fin) = SAMPLE_SUBJECTS + 1
  /\ \A n \in 1..SAMPLE_SUBJECTS : fin[n] = <<<<"D", 1>>, A, SubjFix>>
  /\ fin[SAMPLE_SUBJECTS + 1] = <<<<"D", 1>>, B, SubjFeat>>
  /\ fout = <<[date |-> <<"D", 1>>, commits |-> SAMPLE_SUBJECTS + 1, authors |-> 2,
               subjects |-> [k \in 1..SAMPLE_SUBJECTS |-> SubjFix]]>>

----------------------------------------------------------------------------
(* firstCommit and lastCommit of getAuthorStats on their own: the dates of  *)
(* one author's commits in the order of the log in, the author's entry out  *)

\* <<day, hour, offset of the zone in hours>>
SeenDates == { <<1, 7, 0>>, <<1, 8, 2>>, <<1, 9, 0>>, <<1, 6, 0 - 3>>, <<2, 0, 0>> }

\* commits per author
MaxSeen == 3

InitSeen ==
  /\ fin \in SeqsUpTo(SeenDates, MaxSeen) \ {<<>>}
  /\ fout = <<>>
  /\ cmd = "none" /\ args = NoArgs /\ env = DefaultEnv /\ src = DefaultSrc
  /\ pc = "seen" /\ run = 1 /\ clock = 0 /\ locals = NoLocals
  /\ executed = <<>> /\ stdout = <<>> /\ written = <<>> /\ exitCode = 0 - 1

GetAuthorStats ==
  /\ pc = "seen"
  /\ fout' = AuthorStatsOf([n \in 1..Len(fin) |-> <<A, MailA, fin[n], SubjFix>>],
                           env.tz).authors
  /\ pc' = "folded"
  /\ UNCHANGED <<cmd, args, env, src, run, clock, locals, executed, stdout, written,
                 exitCode, fin>>

SpecSeen == InitSeen /\ [][GetAuthorStats]_vars

\* the instant of a date, in hours
Instant(date) == date[1] * 24 + date[2] - date[3]

\* C29, as claimed: in every author entry of getAuthorStats the first commit is
\* not after the last commit as instants, whatever the zones of the commits and
\* their order in the log
C29_FirstSeenNotAfterLastSeen ==
  pc = "folded" =>
    \A i \in 1..Len(fout) : Instant(fout[i].firstCommit) <= Instant(fout[i].lastCommit)

----------------------------------------------------------------------------
(* index.js: the command handlers of the plugin in one process.  fin is the *)
(* set of the scripts that exist, fout the module cache of require and the  *)
(* results the handlers have returned, run the number of invocations.       *)

\* invocations per process
MaxInvocations == 3

\* the message of a handler whose script exists
CompleteMessage(c) ==
  IF c = "extract-knowledge" THEN "Knowledge extraction complete"
  ELSE IF c = "file-history" THEN "File history retrieved"
  ELSE IF c = "author-patterns" THEN "Author patterns analyzed"
  ELSE "Timeline generated"

InitPlugin ==
  /\ fin \in SUBSET Commands
  /\ fout = [cache |-> {}, results |-> <<>>]
  /\ cmd = "none" /\ args = NoArgs /\ env = DefaultEnv /\ src = DefaultSrc
  /\ pc = "plugin" /\ run = 0 /\ clock = 0 /\ locals = NoLocals
  /\ executed = <<>> /\ stdout = <<>> /\ written = <<>> /\ exitCode = 0 - 1

\* commands[c](args), the script being absent: 'Script not found'
HandlerWithoutScript ==
  /\ pc = "plugin" /\ run < MaxInvocations
  /\ \E c \in Commands \ fin :
       fout' = [fout EXCEPT !.results =
                  Append(@, [command |-> c, success |-> FALSE,
                             message |-> "Script not found", ran |-> FALSE])]
  /\ run' = run + 1
  /\ UNCHANGED <<cmd, args, env, src, pc, clock, locals, executed, stdout, written,
                 exitCode, fin>>

\* commands[c](args), the script being there and not yet loaded: require runs
\* the module, whose last statement is main(); main returns, or ends the
\* process with process.exit
HandlerFirstRequire ==
  /\ pc = "plugin" /\ run < MaxInvocations
  /\ \E c \in fin \ fout.cache :
       \/ /\ fout' = [cache |-> fout.cache \cup {c},
                      results |-> Append(fout.results,
                                    [command |-> c, success |-> TRUE,
                                     message |-> CompleteMessage(c), ran |-> TRUE])]
          /\ UNCHANGED <<pc, exitCode>>
       \/ /\ \E code \in {0, 1} : exitCode' = code
          /\ pc' = "exit"
          /\ fout' = [fout EXCEPT !.cache = @ \cup {c}]
  /\ run' = run + 1
  /\ UNCHANGED <<cmd, args, env, src, clock, locals, executed, stdout, written, fin>>

\* commands[c](args), the script being in the module cache: require returns
\* the cached exports and runs nothing
HandlerCachedRequire ==
  /\ pc = "plugin" /\ run < MaxInvocations
  /\ \E c \in fin \cap fout.cache :
       fout' = [fout EXCEPT !.results =
                  Append(@, [command |-> c, success |-> TRUE,
                             message |-> CompleteMessage(c), ran |-> FALSE])]
  /\ run' = run + 1
  /\ UNCHANGED <<cmd, args, env, src, pc, clock, locals, executed, stdout, written,
                 exitCode, fin>>

NextPlugin == HandlerWithoutScript \/ HandlerFirstRequire \/ HandlerCachedRequire

SpecPlugin == InitPlugin /\ [][NextPlugin]_vars

\* C30, as claimed: every invocation of a command handler that returns success
\* has run the script of the command during that invocation, the second and
\* later ones too, and an invocation returns 'Script not found' without success
\* exactly when the script does not exist
C30_SuccessMeansScriptRan ==
  pc \in {"plugin", "exit"} =>
    \A i \in 1..Len(fout.results) :
      LET result == fout.results[i]
      IN /\ result.success => result.ran
         /\ (~result.success /\ result.message = "Script not found")
              <=> result.command \notin fin

====
